---- MODULE Spec2Model ----
(***************************************************************************)
(* A model of git-p4son's sync command (git_p4son/sync.py).                *)
(*                                                                         *)
(* Text is modelled as a sequence of tokens, each token a TLA+ string: a   *)
(* decimal digit, a fixed phrase of the program (" - added as ",           *)
(* ": p4 sync //...@", ...), a blank, or an opaque chunk of other text.     *)
(* Python's string operations (startswith, split, rstrip, isdigit, int,    *)
(* '%s' % n, lower) are operators over such sequences.                      *)
(*                                                                         *)
(* External commands (git, p4) are the environment: every action issues    *)
(* the commands of its code segment, appends them to `trace`, and draws    *)
(* their results from small sets.  Only the p4 sync commands are modelled  *)
(* as able to fail (RunError); that is the failure sync.py handles.         *)
(***************************************************************************)
EXTENDS Integers, Sequences, FiniteSets, TLC

\* ------------------------------------------------------------------ bounds
MaxCL == 3        \* changelist positions are 1..MaxCL
MaxRuns == 2      \* consecutive runs of sync_command

CLs == 1..MaxCL

\* ------------------------------------------------------------------- state
VARIABLES
    pc,               \* position in sync_command / p4_sync
    args,             \* args.changelist (text) and args.force
    target,           \* args.changelist once it is an int (0 before)
    last_changelist,  \* Optional[int] of sync_command
    call,             \* the frame of the p4_sync call in progress
    output_processor, \* the P4SyncOutputProcessor of the pull in progress
    commits,          \* git history, subjects, most recent first
    trace,            \* commands run, log calls and returns of this run
    ret,              \* "none", "0", "1", or "raised" (an exception left)
    runs,             \* runs of sync_command started so far
    fed,              \* the lines given to a processor driven on its own
    sync_line,        \* a line given to parse_p4_sync_line on its own
    parsed,           \* ... and what it returned
    e_stderr,         \* lines given to get_writable_files on its own
    extracted,        \* ... and what it returned
    log,              \* a Log: _heading_count, _spinner_thread, _spinner_stop
    spinners,         \* the threads start_spinner created, each in _spin
    sys_stdout,       \* what was written to sys.stdout, in order
    sys_stderr,       \* what was written to sys.stderr, in order
    calls,            \* the calls made on the Log, in order
    frame             \* arguments and locals of a command run on its own

\* state that sync_command does not touch
libVars == <<fed, sync_line, parsed, e_stderr, extracted,
             log, spinners, sys_stdout, sys_stderr, calls, frame>>

\* the value of that state while its part of the program is not exercised:
\* all of it but the parts named, which the caller sets
IdleExcept(parts) ==
    /\ IF "processor" \in parts THEN TRUE ELSE fed = <<>>
    /\ IF "parse" \in parts THEN TRUE
       ELSE /\ sync_line = <<>>
            /\ parsed = [mode |-> "", filename |-> <<>>]
            /\ e_stderr = <<>>
            /\ extracted = <<>>
    /\ IF "log" \in parts THEN TRUE
       ELSE /\ log = [heading_count |-> 0, spinner_thread |-> 0,
                      spinner_stop |-> FALSE]
            /\ spinners = <<>>
            /\ sys_stdout = <<>>
            /\ sys_stderr = <<>>
            /\ calls = <<>>
    /\ IF "command" \in parts THEN TRUE ELSE frame = <<>>

\* a step of the parts named leaves the other parts alone
KeepExcept(parts) ==
    /\ IF "processor" \in parts THEN TRUE ELSE UNCHANGED fed
    /\ IF "parse" \in parts THEN TRUE
       ELSE UNCHANGED <<sync_line, parsed, e_stderr, extracted>>
    /\ IF "log" \in parts THEN TRUE
       ELSE UNCHANGED <<log, spinners, sys_stdout, sys_stderr, calls>>
    /\ IF "command" \in parts THEN TRUE ELSE UNCHANGED frame

vars == <<pc, args, target, last_changelist, call, output_processor,
          commits, trace, ret, runs, libVars>>

\* ------------------------------------------------------------ text helpers
Digit == {"0", "1", "2", "3", "4", "5", "6", "7", "8", "9"}

\* A character for which str.isdigit() is true and int() raises ValueError.
SuperDigit == {"sup2"}

DigitVal(d) ==
    CASE d = "0" -> 0 [] d = "1" -> 1 [] d = "2" -> 2 [] d = "3" -> 3
      [] d = "4" -> 4 [] d = "5" -> 5 [] d = "6" -> 6 [] d = "7" -> 7
      [] d = "8" -> 8 [] d = "9" -> 9

DigitChar(n) ==
    CASE n = 0 -> "0" [] n = 1 -> "1" [] n = 2 -> "2" [] n = 3 -> "3"
      [] n = 4 -> "4" [] n = 5 -> "5" [] n = 6 -> "6" [] n = 7 -> "7"
      [] n = 8 -> "8" [] n = 9 -> "9"

RECURSIVE NatStr(_)
NatStr(n) == IF n < 10 THEN <<DigitChar(n)>>
             ELSE NatStr(n \div 10) \o <<DigitChar(n % 10)>>

\* '%s' % n for an int n
IntStr(n) == IF n < 0 THEN <<"-">> \o NatStr(0 - n) ELSE NatStr(n)

RECURSIVE DigitsVal(_)
DigitsVal(s) == IF Len(s) = 0 THEN 0
                ELSE 10 * DigitsVal(SubSeq(s, 1, Len(s) - 1)) + DigitVal(s[Len(s)])

AllDigits(s) == Len(s) > 0 /\ \A i \in 1..Len(s) : s[i] \in Digit

\* str.isdigit()
IsDigit(s) == Len(s) > 0 /\ \A i \in 1..Len(s) : s[i] \in Digit \cup SuperDigit

\* int(s) succeeds (no ValueError): an optional sign and decimal digits
IntOk(s) ==
    \/ AllDigits(s)
    \/ Len(s) > 1 /\ s[1] \in {"+", "-"} /\ AllDigits(Tail(s))

\* int(s), for IntOk(s)
PyInt(s) ==
    IF s[1] = "-" THEN 0 - DigitsVal(Tail(s))
    ELSE IF s[1] = "+" THEN DigitsVal(Tail(s))
    ELSE DigitsVal(s)

LowerChar(c) ==
    CASE c = "LATEST" -> "latest"
      [] c = "Last-Synced" -> "last-synced"
      [] c = "YES" -> "yes"
      [] c = "All" -> "all"
      [] OTHER -> c

\* str.lower()
Lower(s) == [i \in 1..Len(s) |-> LowerChar(s[i])]

\* Optional[int]: <<>> is None, <<n>> is n
None == <<>>
Some(n) == <<n>>

\* ------------------------------------------------------------ trace events
\* One event per external command run, per log call made, and per return
\* from p4_sync.  A command's event carries how it ended (ok) and the lines
\* it gave back (out: stdout, or e.stderr of a RunError).
Ev(kind, cl, text) ==
    [kind |-> kind, cl |-> cl, text |-> text, ok |-> TRUE, out |-> <<>>,
     elapsed |-> 0]
Run(kind, cl, text, ok, out) ==
    [kind |-> kind, cl |-> cl, text |-> text, ok |-> ok, out |-> out,
     elapsed |-> 0]
\* a command that ran to the end, with its result.elapsed
Timed(kind, cl, text, out, e) ==
    [kind |-> kind, cl |-> cl, text |-> text, ok |-> TRUE, out |-> out,
     elapsed |-> e]

\* ------------------------------------------------- p4 sync output parsing
cant_clobber_prefix == "Can't clobber writable file "
UpToDateTail == " - file(s) up-to-date."
Blank == {" ", "\n"}

\* str.rstrip()
RECURSIVE RStrip(_)
RStrip(s) == IF Len(s) > 0 /\ s[Len(s)] \in Blank
             THEN RStrip(SubSeq(s, 1, Len(s) - 1)) ELSE s

\* str.lstrip()
RECURSIVE LStrip(_)
LStrip(s) == IF Len(s) > 0 /\ s[1] \in Blank THEN LStrip(Tail(s)) ELSE s

\* str.strip()
Strip(s) == LStrip(RStrip(s))

\* line.startswith(prefix), for a phrase that is one token
StartsWith(line, prefix) == Len(line) > 0 /\ line[1] = prefix

\* the positions at which the phrase occurs in the line
Occurrences(line, pattern) == {i \in 1..Len(line) : line[i] = pattern}

\* line.split(pattern): len(tokens) = occurrences + 1; tokens[1] for len 2
SplitLen(line, pattern) == Cardinality(Occurrences(line, pattern)) + 1
\* a variant that strips the text after the phrase
SplitSecond_Stripped(line, pattern) ==
    LET i == CHOOSE j \in Occurrences(line, pattern) : TRUE
    IN  RStrip(SubSeq(line, i + 1, Len(line)))

SplitSecond(line, pattern) ==
    LET i == CHOOSE j \in Occurrences(line, pattern) : TRUE
    IN  SubSeq(line, i + 1, Len(line))

\* a variant that compares the whole line with the prefix
RECURSIVE get_writable_files_WholeLine(_)
get_writable_files_WholeLine(stderr_lines) ==
    IF Len(stderr_lines) = 0 THEN <<>>
    ELSE LET line == Head(stderr_lines)
             rest == get_writable_files_WholeLine(Tail(stderr_lines))
         IN  IF line # <<cant_clobber_prefix>> THEN rest
             ELSE <<RStrip(Tail(line))>> \o rest

\* a variant that takes every line of stderr for a conflict
get_writable_files_AnyLine(stderr_lines) ==
    [i \in 1..Len(stderr_lines) |-> RStrip(stderr_lines[i])]

\* a variant that returns each path once
RECURSIVE get_writable_files_Unique(_)
get_writable_files_Unique(stderr_lines) ==
    IF Len(stderr_lines) = 0 THEN <<>>
    ELSE LET line == stderr_lines[Len(stderr_lines)]
             rest == get_writable_files_Unique(
                         SubSeq(stderr_lines, 1, Len(stderr_lines) - 1))
         IN  IF ~StartsWith(line, cant_clobber_prefix) THEN rest
             ELSE IF \E k \in 1..Len(rest) : rest[k] = RStrip(Tail(line))
             THEN rest
             ELSE rest \o <<RStrip(Tail(line))>>

RECURSIVE get_writable_files(_)
get_writable_files(stderr_lines) ==
    IF Len(stderr_lines) = 0 THEN <<>>
    ELSE LET line == Head(stderr_lines)
             rest == get_writable_files(Tail(stderr_lines))
         IN  IF ~StartsWith(line, cant_clobber_prefix) THEN rest
             ELSE <<RStrip(Tail(line))>> \o rest

\* a variant that tries the updating phrase first
patterns_UpdFirst == << <<"upd", " - updating ">>,
                        <<"add", " - added as ">>,
                        <<"del", " - deleted as ">>,
                        <<"clb", cant_clobber_prefix>> >>

patterns == << <<"add", " - added as ">>,
               <<"del", " - deleted as ">>,
               <<"upd", " - updating ">>,
               <<"clb", cant_clobber_prefix>> >>

\* (mode, filename); mode "" stands for None
RECURSIVE parse_from(_, _)
parse_from(line, k) ==
    IF k > Len(patterns) THEN [mode |-> "", filename |-> <<>>]
    ELSE IF SplitLen(line, patterns[k][2]) = 2
         THEN [mode |-> patterns[k][1],
               filename |-> SplitSecond(line, patterns[k][2])]
         ELSE parse_from(line, k + 1)

parse_p4_sync_line(line) == parse_from(line, 1)

\* re.search(r"//...@\d+ - file\(s\) up-to-date\.", line); the three dots of
\* the expression match any three characters
ThreeChars == {"...", "abc"}
RECURSIVE DigitsThenTail(_, _)
DigitsThenTail(line, i) ==
    /\ i <= Len(line)
    /\ line[i] \in Digit
    /\ i + 1 <= Len(line)
    /\ \/ line[i + 1] = UpToDateTail
       \/ DigitsThenTail(line, i + 1)

\* a variant without the test for the notice
IsUpToDateNotice_Never(line) == FALSE

\* re.search(r"//...@\d+ - file\(s\) up-to-date\.", line), sync.py 60-61
IsUpToDateNotice(line) ==
    \E i \in 1..Len(line) :
        /\ i + 2 <= Len(line)
        /\ line[i] = "//"
        /\ line[i + 1] \in ThreeChars
        /\ line[i + 2] = "@"
        /\ DigitsThenTail(line, i + 3)

Modes == {"add", "del", "upd", "clb"}

\* a variant that keeps one processor for all pulls instead of a new one
NewProcessor_Reused(file_count_to_sync) ==
    [output_processor EXCEPT !.file_count_to_sync = file_count_to_sync]

\* P4SyncOutputProcessor.__init__
NewProcessor(file_count_to_sync) ==
    [synced_file_count |-> 0,
     file_count_to_sync |-> file_count_to_sync,
     stats |-> [m \in Modes |-> 0]]

\* a variant that leaves conflicts out of synced_file_count
OnLine_ConflictNotProcessed(p, line) ==
    IF IsUpToDateNotice(line)
    THEN [proc |-> p, logs |-> <<Ev("info", 0, <<"all files up to date">>)>>]
    ELSE LET r == parse_p4_sync_line(line)
         IN  IF r.mode = "" \/ r.filename = <<>>
             THEN [proc |-> p,
                   logs |-> <<Ev("verbose", 0, <<"Unparsable line: ">> \o line)>>]
             ELSE LET q == [p EXCEPT
                              !.stats = [p.stats EXCEPT ![r.mode] = @ + 1],
                              !.synced_file_count =
                                  IF r.mode = "clb" THEN @ ELSE @ + 1]
                  IN  [proc |-> q,
                       logs |-> <<Ev("verbose", 0, <<r.mode, ": ">> \o r.filename)>>]

\* P4SyncOutputProcessor.__call__: the processor after the line, and the
\* log calls the line caused
OnLine(p, line) ==
    IF IsUpToDateNotice(line)
    THEN [proc |-> p, logs |-> <<Ev("info", 0, <<"all files up to date">>)>>]
    ELSE LET r == parse_p4_sync_line(line)
         IN  IF r.mode = "" \/ r.filename = <<>>
             THEN [proc |-> p,
                   logs |-> <<Ev("verbose", 0, <<"Unparsable line: ">> \o line)>>]
             ELSE LET q == [p EXCEPT
                              !.stats = IF r.mode \in DOMAIN p.stats
                                        THEN [p.stats EXCEPT ![r.mode] = @ + 1]
                                        ELSE p.stats,
                              !.synced_file_count = @ + 1]
                  IN  [proc |-> q,
                       logs |-> <<Ev("verbose", 0,
                           <<r.mode, ": ">> \o r.filename \o
                           (IF q.file_count_to_sync >= 0
                            THEN <<"  (">> \o IntStr(q.synced_file_count)
                                 \o <<"/">> \o IntStr(q.file_count_to_sync)
                                 \o <<")">>
                            ELSE <<>>))>>]

\* the processor fed every line of a stream, in order
RECURSIVE Feed(_, _)
Feed(p, lines) ==
    IF Len(lines) = 0 THEN [proc |-> p, logs |-> <<>>]
    ELSE LET one == OnLine(p, Head(lines))
             more == Feed(one.proc, Tail(lines))
         IN  [proc |-> more.proc, logs |-> one.logs \o more.logs]

RECURSIVE Join(_)
Join(parts) == IF Len(parts) = 0 THEN <<>>
               ELSE IF Len(parts) = 1 THEN parts[1]
               ELSE parts[1] \o <<", ">> \o Join(Tail(parts))

\* a variant that lists the kinds in the order the processor declares them
get_summary_DeclaredOrder(p) ==
    LET synced_count == p.stats["add"] + p.stats["upd"] - p.stats["clb"]
        part(m) == IF p.stats[m] # 0
                   THEN << <<m, ": ">> \o IntStr(p.stats[m]) >> ELSE <<>>
        parts == part("add") \o part("del") \o part("upd") \o part("clb")
        detail == Join(parts)
    IN  IF detail # <<>>
        THEN <<"synced ">> \o IntStr(synced_count) \o <<" files (">>
             \o detail \o <<")">>
        ELSE <<"synced ">> \o IntStr(synced_count) \o <<" files">>

\* P4SyncOutputProcessor.get_summary
get_summary(p) ==
    LET synced_count == p.stats["add"] + p.stats["upd"] - p.stats["clb"]
        part(m) == IF p.stats[m] # 0
                   THEN << <<m, ": ">> \o IntStr(p.stats[m]) >> ELSE <<>>
        parts == part("add") \o part("upd") \o part("del") \o part("clb")
        detail == Join(parts)
    IN  IF detail # <<>>
        THEN <<"synced ">> \o IntStr(synced_count) \o <<" files (">>
             \o detail \o <<")">>
        ELSE <<"synced ">> \o IntStr(synced_count) \o <<" files">>

\* ------------------------------------------------------------ git history
SyncPhrase == ": p4 sync //...@"
Idents == {"pergit", "git-p4son"}

\* a variant that writes the subject without the tag
commit_msg_NoTag(changelist) == <<"p4 sync //...@">> \o IntStr(changelist)

\* what sync_command writes: 'git-p4son: p4 sync //...@%s' % changelist
commit_msg(changelist) == <<"git-p4son", SyncPhrase>> \o IntStr(changelist)

\* git log --grep=': p4 sync //\.\.\.@' selects a commit
Grep(msg) == \E i \in 1..Len(msg) : msg[i] = SyncPhrase

\* a variant that knows the current tag only
MatchAt_CurrentOnly(msg, i) ==
    /\ msg[i] = SyncPhrase
    /\ SubSeq(msg, 1, i - 1) = <<"git-p4son">>
    /\ AllDigits(SubSeq(msg, i + 1, Len(msg)))

\* ^(\d+|pergit|git-p4son): p4 sync //\.\.\.@(\d+)$ matches with the phrase at i
MatchAt(msg, i) ==
    /\ msg[i] = SyncPhrase
    /\ LET ident == SubSeq(msg, 1, i - 1)
       IN  \/ AllDigits(ident)
           \/ Len(ident) = 1 /\ ident[1] \in Idents
    /\ AllDigits(SubSeq(msg, i + 1, Len(msg)))

\* git log -1 --pretty=%s --grep=...: the subject of the most recent commit
\* selected, as the lines of stdout (commits are kept most recent first)
RECURSIVE GitLogGrep(_)
GitLogGrep(history) ==
    IF Len(history) = 0 THEN <<>>
    ELSE IF Grep(Head(history)) THEN <<Head(history)>>
    ELSE GitLogGrep(Tail(history))

\* a variant that answers 1 instead of None when nothing is found
git_changelist_of_last_sync_Default(history) ==
    LET stdout == GitLogGrep(history)
    IN  IF Len(stdout) = 0 THEN Some(1)
        ELSE LET msg == stdout[1]
             IN  IF \E i \in 1..Len(msg) : MatchAt(msg, i)
                 THEN LET i == CHOOSE j \in 1..Len(msg) : MatchAt(msg, j)
                      IN  Some(PyInt(SubSeq(msg, i + 1, Len(msg))))
                 ELSE Some(1)

git_changelist_of_last_sync(history) ==
    LET stdout == GitLogGrep(history)
    IN  IF Len(stdout) = 0 THEN None
        ELSE LET msg == stdout[1]
             IN  IF \E i \in 1..Len(msg) : MatchAt(msg, i)
                 THEN LET i == CHOOSE j \in 1..Len(msg) : MatchAt(msg, j)
                      IN  Some(PyInt(SubSeq(msg, i + 1, Len(msg))))
                 ELSE None

\* --------------------------------------------------------- "latest" lookup
\* the outcome of get_latest_changelist_affecting_workspace for the two
\* outputs: [ok |-> TRUE, cl |-> n], or ok FALSE for a CommandError
ClientName(lines) ==
    IF \E i \in 1..Len(lines) : StartsWith(lines[i], "Client name:")
    THEN LET i == CHOOSE j \in 1..Len(lines) :
                    /\ StartsWith(lines[j], "Client name:")
                    /\ \A k \in 1..(j - 1) : ~StartsWith(lines[k], "Client name:")
         IN  Strip(Tail(lines[i]))
    ELSE <<>>

\* re.search(r'Change (\d+)', line): the leftmost match, digits taken greedily
ChangeMatches(line) ==
    {i \in 1..Len(line) : line[i] = "Change " /\ i < Len(line) /\ line[i + 1] \in Digit}

RECURSIVE DigitRun(_, _)
DigitRun(line, i) ==
    IF i <= Len(line) /\ line[i] \in Digit
    THEN <<line[i]>> \o DigitRun(line, i + 1) ELSE <<>>

ParseChange(line) ==
    IF ChangeMatches(line) = {} THEN None
    ELSE LET i == CHOOSE j \in ChangeMatches(line) :
                    \A k \in ChangeMatches(line) : j <= k
         IN  Some(PyInt(DigitRun(line, i + 1)))

\* ------------------------------------------------------------- environment
\* What the user types as the changelist argument.
ArgTokens == {IntStr(c) : c \in CLs}
             \cup {<<"foo">>, <<"latest">>, <<"last-synced">>, <<"Last-Synced">>}

\* What an alias file holds: `alias set` stores any str.isdigit() text.
AliasContents ==
    {t \in {IntStr(c) : c \in CLs} \cup {<<"sup2">>, <<"latest">>} : IsDigit(t)}

\* Commit subjects found in a history before the first run.
Markers == {commit_msg(c) : c \in CLs} \cup {<<"pergit", SyncPhrase, "1">>}
NonMarkers == { <<"Revert ", "git-p4son", SyncPhrase, "2">>, <<"fix typo">> }
InitHistories ==
    {<<>>} \cup {<<m>> : m \in Markers \cup NonMarkers}
           \cup {<<n, commit_msg(2)>> : n \in NonMarkers}

\* stdout of git status --porcelain, and of p4 opened
GitStatusOutputs == { <<>>, << <<" M ", "file.txt">> >> }
P4OpenedOutputs == { <<>>, << <<"//d/f.txt#1 - edit default change (text)">> >> }

\* p4 sync -n: stdout, one line per file that would change
DryRunOutputs ==
    { <<>>,
      << <<"//d/a.txt#1", " - added as ", "/w/a.txt">>,
         <<"//d/b.txt#3", " - updating ", "/w/b.txt">> >> }

\* stdout of a live pull that succeeds
StdoutStreams ==
    { <<>>,
      << <<"//d/a.txt#1", " - added as ", "/w/a.txt">>,
         <<"//d/b.txt#3", " - updating ", "/w/b.txt">> >>,
      << <<"//d/c.txt#2", " - deleted as ", "/w/c.txt">>,
         <<"//", "...", "@", "2", UpToDateTail>>,
         <<"warning">> >> }

\* a live pull that fails: the lines its processor saw, and e.stderr
LiveFailures ==
    { [fed |-> <<>>,
       stderr |-> << <<"Perforce password (P4PASSWD) invalid or unset.">> >>],
      [fed |-> << <<cant_clobber_prefix, "a.txt">> >>,
       stderr |-> << <<cant_clobber_prefix, "a.txt">> >>],
      [fed |-> << <<"//d/b.txt#3", " - updating ", "/w/b.txt">>,
                  <<cant_clobber_prefix, "a.txt", " ">>,
                  <<cant_clobber_prefix, "b/c.txt">> >>,
       stderr |-> << <<cant_clobber_prefix, "a.txt", " ">>,
                     <<"some other message">>,
                     <<cant_clobber_prefix, "b/c.txt">> >>] }

\* stdout of a forced single-file pull that succeeds
ForceStreams == { << <<"//d/x#2", " - updating ", "/w/x">> >> }

\* result.elapsed: falsy (0) or a duration
Elapsed == {0, 1}

\* stdout of p4 info, and of p4 changes -m1
InfoOutputs ==
    { <<>>,
      << <<"User name: u">>, <<"Client name:", " ", "ws">> >>,
      << <<"Client name:", " ">> >> }
ChangesOutputs ==
    { <<>>, << <<"no such file(s)">> >> }
    \cup { << <<"Change ">> \o IntStr(c) \o <<" on 2024/01/01 by u@ws">> >> : c \in CLs }

\* ------------------------------------------------------- sync_command
NoCall == [site |-> "", changelist |-> 0, file_count_to_sync |-> 0,
           writable_files |-> <<>>]
NoProcessor ==
    [synced_file_count |-> 0, file_count_to_sync |-> 0,
     stats |-> [m \in Modes |-> 0]]

\* sync_command while another part of the program is exercised on its own
syncVars == <<args, target, last_changelist, call, output_processor, commits,
              trace, ret, runs>>
SyncIdle ==
    /\ args = [changelist |-> <<"1">>, force |-> FALSE]
    /\ target = 0
    /\ last_changelist = None
    /\ call = NoCall
    /\ output_processor = NoProcessor
    /\ commits = <<>>
    /\ trace = <<>>
    /\ ret = "none"
    /\ runs = 1

Heading(text) == Ev("heading", 0, text)
Info(text) == Ev("info", 0, text)
Error(text) == Ev("error", 0, text)
Detail(text) == Ev("detail", 0, text)
Returned(changelist, result) == Ev("p4_sync returned", changelist, <<result>>)
Raised == Ev("raised", 0, <<>>)

Init ==
    /\ pc = "git_clean"
    /\ args \in [changelist : ArgTokens, force : BOOLEAN]
    /\ target = 0
    /\ last_changelist = None
    /\ call = NoCall
    /\ output_processor = NoProcessor
    /\ commits \in InitHistories
    /\ trace = <<>>
    /\ ret = "none"
    /\ runs = 1
    /\ IdleExcept({})

\* a variant that looks at the exit status only
git_is_workspace_clean_Always(stdout) == TRUE

\* sync.py 160-163
git_is_workspace_clean(stdout) == Len(stdout) = 0

\* sync.py 154-157
p4_is_workspace_clean(stdout) == Len(stdout) = 0

\* sync.py 246-250
CheckGit ==
    /\ pc = "git_clean"
    /\ \E stdout \in GitStatusOutputs :
        LET t == trace \o <<Heading(<<"Checking git workspace">>),
                            Run("git status", 0, <<>>, TRUE, stdout)>>
        IN  IF ~git_is_workspace_clean(stdout)
            THEN /\ trace' = t \o <<Error(<<"workspace is not clean, aborting">>)>>
                 /\ ret' = "1"
                 /\ pc' = "done"
            ELSE /\ trace' = t \o <<Info(<<"clean">>)>>
                 /\ ret' = ret
                 /\ pc' = "p4_clean"
    /\ UNCHANGED <<args, target, last_changelist, call, output_processor,
                   commits, runs, libVars>>

\* sync.py 252-256
CheckP4 ==
    /\ pc = "p4_clean"
    /\ \E stdout \in P4OpenedOutputs :
        LET t == trace \o <<Heading(<<"Checking p4 workspace">>),
                            Run("p4 opened", 0, <<>>, TRUE, stdout)>>
        IN  IF ~p4_is_workspace_clean(stdout)
            THEN /\ trace' = t \o <<Error(<<"workspace is not clean, aborting">>)>>
                 /\ ret' = "1"
                 /\ pc' = "done"
            ELSE /\ trace' = t \o <<Info(<<"clean">>)>>
                 /\ ret' = ret
                 /\ pc' = "resolve"
    /\ UNCHANGED <<args, target, last_changelist, call, output_processor,
                   commits, runs, libVars>>

\* changelist_store.resolve_changelist: decimal text is returned as it is,
\* anything else is looked up as an alias (lookup: the file's text, or <<>>
\* when there is no such alias)
resolve_changelist(value, lookup) ==
    IF AllDigits(value) THEN value ELSE lookup

\* sync.py 272, 283, 259
IsLastSynced(changelist) == Lower(changelist) = <<"last-synced">>
IsLatest(changelist) == Lower(changelist) = <<"latest">>
IsKeyword(changelist) == Lower(changelist) \in {<<"latest">>, <<"last-synced">>}

\* sync.py 258-263
ResolveAlias ==
    /\ pc = "resolve"
    /\ IF ~IsKeyword(args.changelist)
       THEN \E lookup \in AliasContents \cup {<<>>} :
               LET resolved == resolve_changelist(args.changelist, lookup)
                   t == trace \o <<Run("resolve_changelist", 0, args.changelist,
                                       resolved # <<>>, <<resolved>>)>>
               IN  /\ trace' = t
                   /\ IF resolved = <<>>
                      THEN /\ ret' = "1"
                           /\ pc' = "done"
                           /\ args' = args
                      ELSE /\ args' = [args EXCEPT !.changelist = resolved]
                           /\ ret' = ret
                           /\ pc' = "find_last"
       ELSE /\ pc' = "find_last"
            /\ UNCHANGED <<args, ret, trace>>
    /\ UNCHANGED <<target, last_changelist, call, output_processor,
                   commits, runs, libVars>>

\* sync.py 265-270
FindLastSync ==
    /\ pc = "find_last"
    /\ last_changelist' = git_changelist_of_last_sync(commits)
    /\ trace' = trace \o <<Heading(<<"Finding last synced changelist">>),
                           Run("git log", 0, <<>>, TRUE, GitLogGrep(commits))>>
                 \o (IF last_changelist' # None
                     THEN <<Detail(<<"last synced: CL ">> \o IntStr(last_changelist'[1]))>>
                     ELSE <<Info(<<"no previous sync found">>)>>)
    /\ pc' = "keyword"
    /\ UNCHANGED <<args, target, call, output_processor, commits, ret, runs, libVars>>

\* entering p4_sync(changelist, args.force, workspace_dir) from a call site
Call(site, changelist) ==
    [site |-> site, changelist |-> changelist, file_count_to_sync |-> 0,
     writable_files |-> <<>>]

SyncingTo(changelist) == Heading(<<"Syncing to CL ">> \o IntStr(changelist))
FailedToSync == Error(<<"Failed to sync files from perforce">>)

\* sync.py 272-277: the target is "last-synced"
LastSynced ==
    /\ pc = "keyword"
    /\ IsLastSynced(args.changelist)
    /\ IF last_changelist = None
       THEN /\ trace' = trace \o
                 <<Error(<<"No previous sync found, cannot use \"last-synced\"">>)>>
            /\ ret' = "1"
            /\ pc' = "done"
            /\ call' = call
       ELSE /\ trace' = trace \o <<SyncingTo(last_changelist[1])>>
            /\ call' = Call("last-synced", last_changelist[1])
            /\ pc' = "p4_count"
            /\ ret' = ret
    /\ UNCHANGED <<args, target, last_changelist, output_processor,
                   commits, runs, libVars>>

\* get_latest_changelist_affecting_workspace, sync.py 197-231: asked says
\* whether p4 changes was run, ok FALSE stands for a CommandError
\* a variant that asks for the changes without testing the client name
get_latest_changelist_affecting_workspace_Nameless(info, changes) ==
    IF Len(changes) = 0 THEN [ok |-> FALSE, cl |-> 0, asked |-> TRUE]
    ELSE LET m == ParseChange(changes[1])
         IN  IF m = None THEN [ok |-> FALSE, cl |-> 0, asked |-> TRUE]
             ELSE [ok |-> TRUE, cl |-> m[1], asked |-> TRUE]

get_latest_changelist_affecting_workspace(info, changes) ==
    IF ClientName(info) = <<>> THEN [ok |-> FALSE, cl |-> 0, asked |-> FALSE]
    ELSE IF Len(changes) = 0 THEN [ok |-> FALSE, cl |-> 0, asked |-> TRUE]
    ELSE LET m == ParseChange(changes[1])
         IN  IF m = None THEN [ok |-> FALSE, cl |-> 0, asked |-> TRUE]
             ELSE [ok |-> TRUE, cl |-> m[1], asked |-> TRUE]

\* sync.py 283-288: the target is "latest"
FindLatest ==
    /\ pc = "keyword"
    /\ ~IsLastSynced(args.changelist)
    /\ IsLatest(args.changelist)
    /\ \E info \in InfoOutputs, changes \in ChangesOutputs :
        LET r == get_latest_changelist_affecting_workspace(info, changes)
            t == trace \o <<Heading(<<"Finding latest changelist">>),
                            Run("p4 info", 0, <<>>, TRUE, info)>>
                 \o (IF r.asked
                     THEN <<Run("p4 changes", 0, ClientName(info), TRUE, changes)>>
                     ELSE <<>>)
        IN  IF r.ok
            THEN /\ target' = r.cl
                 /\ trace' = t \o <<Detail(<<"latest: CL ">> \o IntStr(r.cl))>>
                 /\ pc' = "compare"
                 /\ ret' = ret
            ELSE /\ trace' = t \o <<Raised>>
                 /\ ret' = "raised"
                 /\ pc' = "done"
                 /\ target' = target
    /\ UNCHANGED <<args, last_changelist, call, output_processor,
                   commits, runs, libVars>>

\* sync.py 289-295: any other target is converted with int()
ParseChangelist ==
    /\ pc = "keyword"
    /\ ~IsLastSynced(args.changelist)
    /\ ~IsLatest(args.changelist)
    /\ IF IntOk(args.changelist)
       THEN /\ target' = PyInt(args.changelist)
            /\ pc' = "compare"
            /\ UNCHANGED <<trace, ret>>
       ELSE /\ trace' = trace \o
                 <<Error(<<"Invalid changelist number: ">> \o args.changelist)>>
            /\ ret' = "1"
            /\ pc' = "done"
            /\ target' = target
    /\ UNCHANGED <<args, last_changelist, call, output_processor,
                   commits, runs, libVars>>

\* a variant comparing the int with the argument's text: never equal
AlreadyAt_Never(last, changelist) == FALSE

\* sync.py 297: last_changelist == args.changelist
AlreadyAt(last, changelist) == last = Some(changelist)

\* variants with the comparison turned around, and with none
IsOlder_Reversed(last, changelist) == last # None /\ changelist > last[1]
IsOlder_Never(last, changelist) == FALSE

\* sync.py 302: moving to an older changelist
IsOlder(last, changelist) == last # None /\ changelist < last[1]

\* a variant without the re-pull at the current position
FirstCall_TargetOnly(last, changelist) == Call("target", changelist)

\* sync.py 313-320: the first call of p4_sync
FirstCall(last, changelist) ==
    IF last # None THEN Call("current", last[1])
    ELSE Call("target", changelist)

\* sync.py 297-320: no-op check, backward guard, and the first call of p4_sync
Compare ==
    /\ pc = "compare"
    /\ IF AlreadyAt(last_changelist, target)
       THEN /\ trace' = trace \o
                 <<Info(<<"Already at CL ">> \o IntStr(target)
                        \o <<", nothing to do.">>)>>
            /\ ret' = "0"
            /\ pc' = "done"
            /\ call' = call
       ELSE IF IsOlder(last_changelist, target) /\ ~args.force
       THEN /\ trace' = trace \o
                 <<Error(<<"Cannot sync to CL ">> \o IntStr(target)
                         \o <<" without --force.">>)>>
            /\ ret' = "1"
            /\ pc' = "done"
            /\ call' = call
       ELSE /\ call' = FirstCall(last_changelist, target)
            /\ trace' = trace \o
                 (IF IsOlder(last_changelist, target)
                  THEN <<Info(<<"Warning: syncing to older CL ">>
                              \o IntStr(target) \o <<" with --force">>)>>
                  ELSE <<>>)
                 \o <<SyncingTo(call'.changelist)>>
            /\ pc' = "p4_count"
            /\ ret' = ret
    /\ UNCHANGED <<args, target, last_changelist, output_processor,
                   commits, runs, libVars>>

\* get_file_count_to_sync, sync.py 109-113
\* a variant that counts one line more than `p4 sync -n` printed
get_file_count_to_sync_PlusOne(stdout) == Len(stdout) + 1

get_file_count_to_sync(stdout) == Len(stdout)

\* sync.py 122-126
P4SyncCount ==
    /\ pc = "p4_count"
    /\ \E stdout \in DryRunOutputs :
        LET n == get_file_count_to_sync(stdout)
            t == trace \o <<Run("p4 sync -n", call.changelist, <<>>, TRUE, stdout)>>
        IN  IF n = 0
            THEN /\ trace' = t \o <<Info(<<"all files up to date">>),
                                    Returned(call.changelist, "True")>>
                 /\ call' = call
                 /\ pc' = "p4_return_true"
            ELSE /\ trace' = t \o <<Info(IntStr(n) \o <<" files to sync">>)>>
                 /\ call' = [call EXCEPT !.file_count_to_sync = n]
                 /\ pc' = "p4_live"
    /\ UNCHANGED <<args, target, last_changelist, output_processor,
                   commits, ret, runs, libVars>>

\* a variant that reports the elapsed time without testing it
ElapsedLog_Always(e) == <<Ev("elapsed", e, <<>>)>>

\* sync.py 105-106, 134-135: `if result.elapsed: log.elapsed(result.elapsed)`
ElapsedLog(e) == IF e # 0 THEN <<Ev("elapsed", e, <<>>)>> ELSE <<>>

\* sync.py 128-136: the live pull runs to the end
P4SyncLiveOk ==
    /\ pc = "p4_live"
    /\ \E stdout \in StdoutStreams, e \in Elapsed :
        LET done == Feed(NewProcessor(call.file_count_to_sync), stdout)
        IN  /\ output_processor' = done.proc
            /\ trace' = trace
                 \o <<Timed("p4 sync", call.changelist, <<>>, stdout, e)>>
                 \o done.logs
                 \o <<Info(get_summary(done.proc))>> \o ElapsedLog(e)
                 \o <<Returned(call.changelist, "True")>>
    /\ pc' = "p4_return_true"
    /\ UNCHANGED <<args, target, last_changelist, call, commits, ret, runs, libVars>>

\* sync.py 128-132, 137-151: the live pull raises RunError
P4SyncLiveFail ==
    /\ pc = "p4_live"
    /\ \E f \in LiveFailures :
        LET done == Feed(NewProcessor(call.file_count_to_sync), f.fed)
            writable_files == get_writable_files(f.stderr)
            t == trace
                 \o <<Run("p4 sync", call.changelist, <<>>, FALSE, f.stderr)>>
                 \o done.logs \o <<Info(get_summary(done.proc))>>
            found == <<Info(<<"Found ">> \o IntStr(Len(writable_files))
                            \o <<" writable files">>)>>
        IN  /\ output_processor' = done.proc
            /\ IF writable_files = <<>>
               THEN /\ trace' = t \o <<Raised>>
                    /\ ret' = "raised"
                    /\ pc' = "done"
                    /\ call' = call
               ELSE IF args.force
               THEN /\ trace' = t \o found
                    /\ call' = [call EXCEPT !.writable_files = writable_files]
                    /\ pc' = "p4_force"
                    /\ ret' = ret
               ELSE /\ trace' = t \o found
                         \o <<Info(<<"Leaving files as is, use --force to force sync">>)>>
                         \o [i \in 1..Len(writable_files) |-> Info(writable_files[i])]
                         \o <<Returned(call.changelist, "False")>>
                    /\ call' = call
                    /\ pc' = "p4_return_false"
                    /\ ret' = ret
    /\ UNCHANGED <<args, target, last_changelist, commits, runs, libVars>>

\* a variant that returns from inside the loop, after the first file
Remaining_None(writable_files) == <<>>

\* sync.py 144: the files the loop has still to visit after this one
Remaining(writable_files) == Tail(writable_files)

\* p4_force_sync_file (sync.py 98-106) for the next file of the loop at
\* sync.py 144-146: the forced pull runs to the end
P4ForceSyncFileOk ==
    /\ pc = "p4_force"
    /\ \E stdout \in ForceStreams, e \in Elapsed :
        LET filename == Head(call.writable_files)
            rest == Remaining(call.writable_files)
            done == Feed(NewProcessor(-1), stdout)
            t == trace
                 \o <<Timed("p4 sync -f", call.changelist, filename, stdout, e)>>
                 \o done.logs
                 \o <<Info(get_summary(done.proc))>> \o ElapsedLog(e)
        IN  /\ output_processor' = done.proc
            /\ call' = [call EXCEPT !.writable_files = rest]
            /\ IF rest = <<>>
               THEN /\ trace' = t \o <<Returned(call.changelist, "True")>>
                    /\ pc' = "p4_return_true"
               ELSE /\ trace' = t
                    /\ pc' = "p4_force"
    /\ UNCHANGED <<args, target, last_changelist, commits, ret, runs, libVars>>

\* ... the forced pull raises RunError, which nothing catches
P4ForceSyncFileFail ==
    /\ pc = "p4_force"
    /\ output_processor' = NewProcessor(-1)
    /\ trace' = trace
         \o <<Run("p4 sync -f", call.changelist, Head(call.writable_files),
                  FALSE, <<>>),
              Raised>>
    /\ ret' = "raised"
    /\ pc' = "done"
    /\ UNCHANGED <<args, target, last_changelist, call, commits, runs, libVars>>

\* a variant that does not test p4_sync's result
SyncFailed_Ignored ==
    /\ pc = "p4_return_false"
    /\ pc' = "p4_return_true"
    /\ UNCHANGED <<args, target, last_changelist, call, output_processor,
                   commits, trace, ret, runs, libVars>>

\* `if not p4_sync(...)`: sync.py 277-279, 315-317, 320-322
SyncFailed ==
    /\ pc = "p4_return_false"
    /\ trace' = trace \o <<FailedToSync>>
    /\ ret' = "1"
    /\ pc' = "done"
    /\ UNCHANGED <<args, target, last_changelist, call, output_processor,
                   commits, runs, libVars>>

\* a variant in which "last-synced" falls through to the marker commit
AfterSync_FallThrough(site) ==
    CASE site = "current" -> "p4_count"
      [] OTHER -> "commit"

\* where sync_command goes on after p4_sync returned True at a call site:
\* sync.py 280 (return 0), 319-320 (the pull to the target), 324 (the marker)
AfterSync(site) ==
    CASE site = "last-synced" -> "done"
      [] site = "current" -> "p4_count"
      [] OTHER -> "commit"

SyncSucceeded ==
    /\ pc = "p4_return_true"
    /\ pc' = AfterSync(call.site)
    /\ IF pc' = "done"
       THEN /\ ret' = "0"
            /\ UNCHANGED <<trace, call>>
       ELSE IF pc' = "p4_count"
       THEN /\ trace' = trace \o <<SyncingTo(target)>>
            /\ call' = Call("target", target)
            /\ ret' = ret
       ELSE UNCHANGED <<trace, call, ret>>
    /\ UNCHANGED <<args, target, last_changelist, output_processor,
                   commits, runs, libVars>>

\* sync.py 324-332
RecordMarker ==
    /\ pc = "commit"
    /\ \E stdout \in GitStatusOutputs :
        trace' = trace
            \o <<Heading(<<"Committing git changes">>),
                 Run("git status", 0, <<>>, TRUE, stdout)>>
            \o (IF ~git_is_workspace_clean(stdout)
                THEN <<Run("git add", 0, <<".">>, TRUE, <<>>)>> ELSE <<>>)
            \o <<Run("git commit", 0, commit_msg(target), TRUE, <<>>),
                 Info(<<"Done">>)>>
    /\ commits' = <<commit_msg(target)>> \o commits
    /\ ret' = "0"
    /\ pc' = "done"
    /\ UNCHANGED <<args, target, last_changelist, call, output_processor, runs, libVars>>

\* the user runs the command again
NextRun ==
    /\ pc = "done"
    /\ runs < MaxRuns
    /\ runs' = runs + 1
    /\ pc' = "git_clean"
    /\ args' \in [changelist : ArgTokens, force : BOOLEAN]
    /\ target' = 0
    /\ last_changelist' = None
    /\ call' = NoCall
    /\ output_processor' = NoProcessor
    /\ trace' = <<>>
    /\ ret' = "none"
    /\ UNCHANGED <<commits, libVars>>

Next ==
    \/ CheckGit
    \/ CheckP4
    \/ ResolveAlias
    \/ FindLastSync
    \/ LastSynced
    \/ FindLatest
    \/ ParseChangelist
    \/ Compare
    \/ P4SyncCount
    \/ P4SyncLiveOk
    \/ P4SyncLiveFail
    \/ P4ForceSyncFileOk
    \/ P4ForceSyncFileFail
    \/ SyncFailed
    \/ SyncSucceeded
    \/ RecordMarker

\* one run of sync_command from any history
Spec == Init /\ [][Next]_vars

\* consecutive runs of sync_command on one repository
NextRuns == Next \/ NextRun
SpecRuns == Init /\ [][NextRuns]_vars

\* ------------------------------------------------- reading a run's trace
Indices(kinds) == {i \in 1..Len(trace) : trace[i].kind \in kinds}
Events(kinds) ==
    LET Test(e) == e.kind \in kinds IN SelectSeq(trace, Test)

PullKinds == {"p4 sync -n", "p4 sync", "p4 sync -f"}
CommandKinds == PullKinds \cup {"git status", "p4 opened", "git log", "git add",
                                "git commit", "p4 info", "p4 changes",
                                "resolve_changelist"}
NoPulls == Indices(PullKinds) = {}
NoCommit == Indices({"git add", "git commit"}) = {}

\* one pull attempt is one call of p4_sync, which starts with the dry-run count
Attempts == Events({"p4 sync -n"})
AttemptCLs == [i \in 1..Len(Attempts) |-> Attempts[i].cl]
Returns == Events({"p4_sync returned"})

IsSummary(e) == e.kind = "info" /\ Len(e.text) > 0 /\ e.text[1] = "synced "

\* the live pull at index i is followed by a summary before anything else runs
SummarizedAt(i) ==
    \E j \in (i + 1)..Len(trace) :
        /\ IsSummary(trace[j])
        /\ \A k \in (i + 1)..(j - 1) :
               trace[k].kind \in {"info", "verbose"} /\ ~IsSummary(trace[k])

\* both cleanliness checks of the run passed
BothClean ==
    /\ Indices({"p4 opened"}) # {}
    /\ \A i \in Indices({"p4 opened"}) : trace[i].out = <<>>

HasCurrent == last_changelist # None
Resolved == target # 0

\* ---------------------------------------------------------------- C1
DoublePullCase ==
    /\ pc = "done" /\ BothClean
    /\ HasCurrent /\ Resolved /\ last_changelist # Some(target)

\* C1 as stated: in every run with both workspaces clean, a current position
\* and a resolved numeric target that differs from it, exactly two pull
\* attempts occur, at the current position and then at the target.
C1_Original ==
    DoublePullCase => AttemptCLs = <<last_changelist[1], target>>

\* C1, amended: when the target is newer than the current position or force is
\* set, the attempts of the run start with one at the current position; the
\* attempt at the target follows exactly when the first returned success, and
\* nothing else is attempted; every live pull reports its own summary before
\* anything else runs.
C1_DoublePull ==
    (DoublePullCase /\ (target > last_changelist[1] \/ args.force)) =>
        /\ Len(AttemptCLs) >= 1
        /\ AttemptCLs[1] = last_changelist[1]
        /\ Len(Returns) >= 1 /\ Returns[1].text = <<"True">>
             => AttemptCLs = <<last_changelist[1], target>>
        /\ ~(Len(Returns) >= 1 /\ Returns[1].text = <<"True">>)
             => AttemptCLs = <<last_changelist[1]>>
        /\ \A i \in Indices({"p4 sync"}) : SummarizedAt(i)

C1_Witness ==
    /\ DoublePullCase /\ ret = "0"
    /\ AttemptCLs = <<last_changelist[1], target>>
    /\ Cardinality(Indices({"p4 sync"})) = 2
    /\ Len(Events({"info"})) > 0

\* ---------------------------------------------------------------- C2
FirstCommitStep ==
    CHOOSE i \in Indices({"git add", "git commit"}) :
        \A j \in Indices({"git add", "git commit"}) : i <= j

\* C2: stage-all and the marker commit come only after every pull attempt of
\* the run returned success, the last of them the attempt at the target; and
\* when the first attempt returns not-completed, no further attempt is made,
\* nothing is staged or committed, and the run returns 1.
C2_CommitOnlyAfterPulls ==
    /\ ~NoCommit =>
         /\ Resolved
         /\ Len(Attempts) >= 1
         /\ Len(Returns) = Len(Attempts)
         /\ \A i \in 1..Len(Returns) : Returns[i].text = <<"True">>
         /\ AttemptCLs[Len(AttemptCLs)] = target
         /\ \A i \in Indices(PullKinds \cup {"p4_sync returned"}) :
                i < FirstCommitStep
    /\ (Len(Returns) >= 1 /\ Returns[1].text = <<"False">>) =>
         /\ Len(Attempts) = 1
         /\ NoCommit
         /\ pc \in {"p4_return_false", "done"}
         /\ pc = "done" => ret = "1"

C2_Witness ==
    /\ pc = "done" /\ ret = "1"
    /\ HasCurrent /\ Resolved
    /\ Len(Returns) = 1 /\ Returns[1].text = <<"False">>
    /\ AttemptCLs = <<last_changelist[1]>>

\* ---------------------------------------------------------------- C3
\* the first git status of a run is the cleanliness check of sync.py 247
FirstStatus ==
    CHOOSE i \in Indices({"git status"}) :
        \A j \in Indices({"git status"}) : i <= j

GitDirty == Indices({"git status"}) # {} /\ trace[FirstStatus].out # <<>>
P4Dirty == \E i \in Indices({"p4 opened"}) : trace[i].out # <<>>
UnknownAlias == \E i \in Indices({"resolve_changelist"}) : ~trace[i].ok
NotAnInteger ==
    \E i \in Indices({"resolve_changelist"}) :
        trace[i].ok /\ ~AllDigits(trace[i].out[1])

ResolutionKinds == {"resolve_changelist", "git log", "p4 info", "p4 changes"}

\* C3: a dirty git tree, opened Perforce files, an unknown alias or a resolved
\* value that is no integer end the run with 1 and without any pull, stage-all
\* or commit; git is checked before Perforce and both before the target is
\* resolved.
C3_PreconditionFailure ==
    /\ (GitDirty \/ P4Dirty \/ UnknownAlias) =>
         pc = "done" /\ ret = "1" /\ NoPulls /\ NoCommit
    /\ NotAnInteger =>
         /\ pc \in {"find_last", "keyword", "done"}
         /\ pc = "done" => ret = "1"
         /\ NoPulls /\ NoCommit
    /\ GitDirty => Indices({"p4 opened"} \cup ResolutionKinds) = {}
    /\ P4Dirty => Indices(ResolutionKinds) = {}
    /\ \A i \in Indices({"p4 opened"}) :
         Indices({"git status"}) # {} /\ FirstStatus < i
    /\ \A i \in Indices(ResolutionKinds \cup PullKinds) :
         \E j \in Indices({"p4 opened"}) : j < i

C3_Witness ==
    /\ pc = "done" /\ ret = "1" /\ NotAnInteger /\ NoPulls

\* ---------------------------------------------------------------- C4
\* C4: when the resolved target equals the current position the run issues no
\* pull, not even a dry-run count, stages and commits nothing, and returns 0.
C4_AlreadyAtTarget ==
    (Resolved /\ last_changelist = Some(target)) =>
        /\ pc \in {"compare", "done"}
        /\ NoPulls /\ NoCommit
        /\ pc = "done" => ret = "0"

C4_Witness ==
    pc = "done" /\ ret = "0" /\ Resolved /\ last_changelist = Some(target)

\* ---------------------------------------------------------------- C5
\* C5: with a current position, an older target and no force, the run returns
\* 1 and issues no pull, no stage-all and no commit.
C5_BackwardGuard ==
    (Resolved /\ HasCurrent /\ target < last_changelist[1] /\ ~args.force) =>
        /\ pc \in {"compare", "done"}
        /\ NoPulls /\ NoCommit
        /\ pc = "done" => ret = "1"

C5_Witness ==
    /\ pc = "done" /\ ret = "1" /\ ~args.force
    /\ Resolved /\ HasCurrent /\ target < last_changelist[1]

\* ---------------------------------------------------------------- C6
IsWarning(e) ==
    e.kind = "info" /\ Len(e.text) > 0 /\ e.text[1] = "Warning: syncing to older CL "
Warnings == {i \in 1..Len(trace) : IsWarning(trace[i])}
CommitEvents == Events({"git commit"})

\* what git_changelist_of_last_sync reads back from a commit's subject
PositionOf(msg) == git_changelist_of_last_sync(<<msg>>)

LastCommand ==
    CHOOSE i \in Indices(CommandKinds) : \A j \in Indices(CommandKinds) : j <= i

ForcedBackwardCase ==
    /\ BothClean /\ Resolved /\ HasCurrent
    /\ target < last_changelist[1] /\ args.force

LastSyncedCase ==
    /\ pc = "done" /\ ret = "0"
    /\ IsLastSynced(args.changelist) /\ HasCurrent

\* C7 as stated: a successful run with target "last-synced" makes one pull
\* attempt at the current position and then records a marker for it.
C7_Original ==
    LastSyncedCase =>
        /\ AttemptCLs = <<last_changelist[1]>>
        /\ Len(CommitEvents) = 1
        /\ PositionOf(CommitEvents[1].text) = last_changelist

\* C7, amended: a successful run with target "last-synced" makes exactly one
\* pull attempt, at the current position, every pull command of it at that
\* position, and stages and commits nothing: no marker is recorded.
C7_LastSyncedPullOnly ==
    LastSyncedCase =>
        /\ AttemptCLs = <<last_changelist[1]>>
        /\ \A i \in Indices(PullKinds) : trace[i].cl = last_changelist[1]
        /\ Len(Returns) = 1 /\ Returns[1].text = <<"True">>
        /\ NoCommit
        /\ Indices({"git status"}) = {FirstStatus}
        /\ git_changelist_of_last_sync(commits) = last_changelist

C7_Witness ==
    /\ LastSyncedCase
    /\ Indices({"p4 sync"}) # {}
    /\ AttemptCLs = <<last_changelist[1]>>

\* ---------------------------------------------------------------- C8
IsMarker(msg) == \E i \in 1..Len(msg) : MatchAt(msg, i)
NoMarkerIn(history) == \A i \in 1..Len(history) : ~IsMarker(history[i])

\* C8: with target "last-synced" in any letter case and no sync marker in the
\* history, the run returns 1 and issues no pull and no commit.
C8_LastSyncedWithoutMarker ==
    (IsLastSynced(args.changelist) /\ NoMarkerIn(commits)) =>
        /\ NoPulls /\ NoCommit
        /\ pc = "done" => ret = "1"
        /\ pc \in {"git_clean", "p4_clean", "resolve", "find_last", "keyword", "done"}

C8_Witness ==
    /\ pc = "done" /\ ret = "1" /\ BothClean
    /\ args.changelist = <<"Last-Synced">>
    /\ Len(commits) > 0 /\ NoMarkerIn(commits)

\* ---------------------------------------------------------------- C9
TargetPullSucceeded ==
    /\ Resolved
    /\ \E r \in 1..Len(Returns) :
           Returns[r].cl = target /\ Returns[r].text = <<"True">>

\* the git status of sync.py 325, when it has run
SecondStatus ==
    CHOOSE i \in Indices({"git status"}) : i # FirstStatus

HasConflictLine(lines) ==
    \E k \in 1..Len(lines) : StartsWith(lines[k], cant_clobber_prefix)

\* the first return or raise after index i
OutcomeAfter(i) ==
    CHOOSE j \in (i + 1)..Len(trace) :
        /\ trace[j].kind \in {"p4_sync returned", "raised"}
        /\ \A k \in (i + 1)..(j - 1) :
               trace[k].kind \notin {"p4_sync returned", "raised"}

\* C10: without force no forced pull is ever run, and a live pull that fails
\* with a writable-file line in stderr makes p4_sync return False: nothing is
\* raised and no further command runs in that attempt.
C10_ConflictWithoutForce ==
    ~args.force =>
        /\ Indices({"p4 sync -f"}) = {}
        /\ \A i \in Indices({"p4 sync"}) :
               (~trace[i].ok /\ HasConflictLine(trace[i].out)) =>
                   /\ \E j \in (i + 1)..Len(trace) :
                          trace[j].kind \in {"p4_sync returned", "raised"}
                   /\ trace[OutcomeAfter(i)] = Returned(trace[i].cl, "False")
                   /\ \A k \in (i + 1)..OutcomeAfter(i) :
                          trace[k].kind \notin CommandKinds

C10_Witness ==
    /\ pc = "done" /\ ret = "1" /\ ~args.force
    /\ \E i \in Indices({"p4 sync"}) :
           /\ ~trace[i].ok
           /\ Len(get_writable_files(trace[i].out)) = 2
    /\ Returns[Len(Returns)].text = <<"False">>

\* ------------------------------------------------------ forced pulls (C11)
\* a return or raise follows index i
Ended(i) ==
    \E j \in (i + 1)..Len(trace) :
        trace[j].kind \in {"p4_sync returned", "raised"}

\* where the attempt of the command at index i ends, or would end
EndOf(i) == IF Ended(i) THEN OutcomeAfter(i) ELSE Len(trace) + 1

\* the forced pulls of the attempt of the live pull at index i, in the order
\* they were run
ForcedAfter(i) ==
    LET Test(j) == j > i /\ j < EndOf(i) /\ trace[j].kind = "p4 sync -f"
    IN  SelectSeq([j \in 1..Len(trace) |-> j], Test)

\* C11: with force, a live pull at P that fails with conflict paths p1..pk is
\* followed in its attempt by forced pulls of p1, p2, ... in that order, each
\* at P, one after the other succeeded; the attempt returns True exactly when
\* all k were run and succeeded, a forced pull that fails ends the attempt
\* with its exception, and neither the live pull nor the dry run is run again.
C11_ForcedPullPerPath ==
    args.force =>
        \A i \in Indices({"p4 sync"}) :
            (~trace[i].ok /\ HasConflictLine(trace[i].out)) =>
                LET paths == get_writable_files(trace[i].out)
                    F == ForcedAfter(i)
                    AllOk == \A n \in 1..Len(F) : trace[F[n]].ok
                IN  /\ Len(F) <= Len(paths)
                    /\ \A n \in 1..Len(F) :
                           /\ trace[F[n]].text = paths[n]
                           /\ trace[F[n]].cl = trace[i].cl
                           /\ n < Len(F) => trace[F[n]].ok
                    /\ \A k \in (i + 1)..(EndOf(i) - 1) :
                           trace[k].kind \notin {"p4 sync", "p4 sync -n"}
                    /\ IF Ended(i)
                       THEN IF AllOk
                            THEN /\ Len(F) = Len(paths)
                                 /\ trace[EndOf(i)] = Returned(trace[i].cl, "True")
                            ELSE trace[EndOf(i)] = Raised
                       ELSE /\ pc = "p4_force"
                            /\ AllOk
                            /\ Len(F) < Len(paths)

\* a failed live pull at 2 with two conflict paths, the two forced pulls of
\* exactly these paths at 2, and the attempt returned True
C11_Witness ==
    /\ args.force
    /\ \E i \in Indices({"p4 sync"}) :
           /\ ~trace[i].ok
           /\ trace[i].cl = 2
           /\ Ended(i)
           /\ Len(ForcedAfter(i)) = 2
           /\ trace[ForcedAfter(i)[1]].text = <<"a.txt">>
           /\ trace[ForcedAfter(i)[2]].text = <<"b/c.txt">>
           /\ trace[ForcedAfter(i)[1]].cl = 2
           /\ trace[ForcedAfter(i)[2]].cl = 2
           /\ trace[EndOf(i)] = Returned(2, "True")

\* ------------------------------------------------- fatal pull failure (C12)
\* C12: a live pull that fails with no writable-file line in stderr is fatal
\* with and without force: the exception leaves p4_sync and sync_command at
\* once, so p4_sync returns no value, no forced pull or other command follows
\* and the run makes no commit.
C12_FailureWithoutConflictIsFatal ==
    \A i \in Indices({"p4 sync"}) :
        (~trace[i].ok /\ ~HasConflictLine(trace[i].out)) =>
            /\ Ended(i)
            /\ EndOf(i) = Len(trace)
            /\ trace[EndOf(i)] = Raised
            /\ \A k \in (i + 1)..Len(trace) : trace[k].kind \notin CommandKinds
            /\ NoCommit
            /\ ret = "raised"
            /\ pc = "done"

\* force is set and the live pull failed with an unrelated error message
C12_Witness ==
    /\ args.force
    /\ \E i \in Indices({"p4 sync"}) :
           /\ ~trace[i].ok
           /\ trace[i].out =
                  << <<"Perforce password (P4PASSWD) invalid or unset.">> >>
    /\ ret = "raised"

\* ------------------------------------------------ nothing to pull (C13)
\* the end of the pull attempt that starts with the dry run at index i: the
\* next dry run, or the end of the trace
AttemptEnd(i) ==
    LET later == {j \in Indices({"p4 sync -n"}) : j > i}
    IN  IF later = {} THEN Len(trace)
        ELSE (CHOOSE j \in later : \A k \in later : j <= k) - 1

\* C13: when the dry run of a pull attempt lists no file, p4_sync reports
\* 'all files up to date' and returns True at once: the attempt runs no live
\* pull and no forced pull, and no processor is built or fed (no line is
\* logged as processed, no summary or elapsed time is reported, and while no
\* pull has run the processor is untouched).
C13_ZeroCountSkipsPull ==
    /\ \A i \in Indices({"p4 sync -n"}) :
           trace[i].out = <<>> =>
               /\ i + 2 <= Len(trace)
               /\ trace[i + 1] = Info(<<"all files up to date">>)
               /\ trace[i + 2] = Returned(trace[i].cl, "True")
               /\ \A k \in (i + 1)..AttemptEnd(i) :
                      /\ trace[k].kind \notin {"p4 sync", "p4 sync -f",
                                               "verbose", "elapsed"}
                      /\ ~IsSummary(trace[k])
    /\ Indices({"p4 sync", "p4 sync -f"}) = {} => output_processor = NoProcessor

\* a finished run whose only pull attempt found nothing to pull and which
\* went on to record the marker commit
C13_Witness ==
    /\ pc = "done"
    /\ Len(Attempts) = 1
    /\ Attempts[1].out = <<>>
    /\ Returns = <<Returned(Attempts[1].cl, "True")>>
    /\ ~NoCommit

\* --------------------------------------- reports of a live pull (C14)
\* the first command after index i, or the end of the trace
NextCommand(i) ==
    LET later == {j \in Indices(CommandKinds) : j > i}
    IN  IF later = {} THEN Len(trace) + 1
        ELSE CHOOSE j \in later : \A k \in later : j <= k

\* the reports of an elapsed time that follow the command at index i
ElapsedOf(i) ==
    {k \in (i + 1)..(NextCommand(i) - 1) : trace[k].kind = "elapsed"}

\* the summary that follows the command at index i
SummaryOf(i) ==
    CHOOSE j \in (i + 1)..Len(trace) :
        /\ IsSummary(trace[j])
        /\ \A k \in (i + 1)..(j - 1) : ~IsSummary(trace[k])

\* C14 as stated: every live pull, failed or not, is followed by its summary
\* and by a report of the elapsed time.
C14_Original ==
    \A i \in Indices({"p4 sync"}) :
        /\ SummarizedAt(i)
        /\ ElapsedOf(i) # {}

\* C14: every live pull, failed or not, is followed by its summary; the
\* elapsed time is reported, once and right after the summary, exactly when
\* the pull succeeded and its result carries a duration.
C14_SummaryAlwaysElapsedOnSuccess ==
    \A i \in Indices({"p4 sync"}) :
        /\ SummarizedAt(i)
        /\ IF trace[i].ok /\ trace[i].elapsed # 0
           THEN /\ ElapsedOf(i) = {SummaryOf(i) + 1}
                /\ trace[SummaryOf(i) + 1].cl = trace[i].elapsed
           ELSE ElapsedOf(i) = {}

\* one run with a live pull that succeeded and reported its duration, and a
\* later live pull that failed and reported its summary only
C14_Witness ==
    \E i, j \in Indices({"p4 sync"}) :
        /\ i < j
        /\ trace[i].ok /\ trace[i].elapsed = 1 /\ ElapsedOf(i) # {}
        /\ ~trace[j].ok /\ SummarizedAt(j) /\ ElapsedOf(j) = {}

\* --------------------------------------- one processor per pull (C15)
\* how many lines of the pull at index i were logged as processed in mode m
CountedIn(i, m) ==
    Cardinality({k \in (i + 1)..(NextCommand(i) - 1) :
                    /\ trace[k].kind = "verbose"
                    /\ trace[k].text[1] = m})

\* a processor that has counted the lines of the pull at index i and nothing
\* else
OwnCounts(i) ==
    [synced_file_count |->
         CountedIn(i, "add") + CountedIn(i, "del") + CountedIn(i, "upd")
             + CountedIn(i, "clb"),
     file_count_to_sync |-> IF trace[i].kind = "p4 sync -f" THEN -1 ELSE 0,
     stats |-> [m \in Modes |-> CountedIn(i, m)]]

LivePulls == Indices({"p4 sync", "p4 sync -f"})

\* C15: every live pull and every forced single-file pull, the second pull of
\* a double pull included, counts from zero: the summary reported for a pull
\* is the summary of the lines of that pull alone, and the processor left by
\* the most recent pull holds the counts of that pull alone.
C15_FreshProcessorPerPull ==
    /\ \A i \in LivePulls :
           (trace[i].ok \/ trace[i].kind = "p4 sync") =>
               /\ SummarizedAt(i)
               /\ trace[SummaryOf(i)].text = get_summary(OwnCounts(i))
    /\ LivePulls # {} =>
           LET i == CHOOSE j \in LivePulls : \A k \in LivePulls : k <= j
           IN  /\ output_processor.stats = OwnCounts(i).stats
               /\ output_processor.synced_file_count
                      = OwnCounts(i).synced_file_count

\* a live pull that counted one update and two conflicts before it failed,
\* followed by a forced pull whose summary shows its own single update
C15_Witness ==
    \E i \in Indices({"p4 sync"}), j \in Indices({"p4 sync -f"}) :
        /\ i < j
        /\ CountedIn(i, "upd") = 1
        /\ CountedIn(i, "clb") = 2
        /\ trace[j].ok
        /\ trace[SummaryOf(j)].text
               = <<"synced ", "1", " files (", "upd", ": ", "1", ")">>

\* ------------------------------------------- the marker on its own (C16)
\* The two ends of the marker: the commit step of one run writes it for a
\* position (sync.py 328-329), git_changelist_of_last_sync reads the history
\* before and after (sync.py 179-194).  Positions range over 0..MaxPosition
\* so that several digits are written and read.
MaxPosition == 120

\* the tags the regular expression at sync.py 191 accepts: a number, the
\* former program name, the program name
Tags == { <<"4", "2">>, <<"pergit">>, <<"git-p4son">> }

\* a marker subject as some version of the program wrote it
TaggedMsg(tag, changelist) == tag \o <<SyncPhrase>> \o IntStr(changelist)

MarkerHistories ==
    {<<>>} \cup { <<TaggedMsg(tag, q)>> : tag \in Tags, q \in {7, 45} }

InitMarker ==
    /\ pc = "marker"
    /\ target \in 0..MaxPosition
    /\ args = [changelist |-> IntStr(target), force |-> FALSE]
    /\ last_changelist = None
    /\ call = NoCall
    /\ output_processor = NoProcessor
    /\ commits \in MarkerHistories
    /\ trace = <<>>
    /\ ret = "none"
    /\ runs = 1
    /\ IdleExcept({})

\* sync.py 179-194, 268: the history is read
MarkerFind ==
    /\ pc \in {"marker", "marker_written"}
    /\ last_changelist' = git_changelist_of_last_sync(commits)
    /\ pc' = IF pc = "marker" THEN "marker_found" ELSE "marker_read"
    /\ UNCHANGED <<args, target, call, output_processor, commits, trace, ret,
                   runs, libVars>>

\* sync.py 328-329: the marker commit for the target
MarkerCommit ==
    /\ pc = "marker_found"
    /\ commits' = <<commit_msg(target)>> \o commits
    /\ pc' = "marker_written"
    /\ UNCHANGED <<args, target, last_changelist, call, output_processor,
                   trace, ret, runs, libVars>>

NextMarker == MarkerFind \/ MarkerCommit

SpecMarker == InitMarker /\ [][NextMarker]_vars

\* C16: the subject written for a position reads back as that position: once
\* the marker commit for T is the most recent commit, the position read from
\* the history is T; the subject written carries the current tag, and a
\* subject carrying a numeric tag or a former tag reads as its position too.
C16_MarkerRoundTrip ==
    /\ pc = "marker_read" =>
           /\ last_changelist = Some(target)
           /\ Head(commits)[1] = "git-p4son"
           /\ Head(commits) = TaggedMsg(<<"git-p4son">>, target)
    /\ pc = "marker_found" =>
           \A tag \in Tags, q \in 0..MaxPosition :
               commits = <<TaggedMsg(tag, q)>> => last_changelist = Some(q)

\* the marker for 120 was written on top of a marker of the former program
\* for 45, and read back
C16_Witness ==
    /\ pc = "marker_read"
    /\ target = 120
    /\ last_changelist = Some(120)
    /\ commits = << <<"git-p4son", SyncPhrase, "1", "2", "0">>,
                    <<"pergit", SyncPhrase, "4", "5">> >>

\* ------------------------------------------ most recent marker (C17)
\* the position of the most recent commit of the history whose subject is a
\* marker, None when no subject is one
RECURSIVE MostRecentMarker(_)
MostRecentMarker(history) ==
    IF Len(history) = 0 THEN None
    ELSE IF IsMarker(Head(history)) THEN PositionOf(Head(history))
    ELSE MostRecentMarker(Tail(history))

\* C17 as stated: once the history has been read, and until the run commits,
\* last_changelist is the position of the most recent marker of the history,
\* and None only when the history holds no marker.
C17_Original ==
    (Indices({"git log"}) # {} /\ NoCommit) =>
        last_changelist = MostRecentMarker(commits)

\* --------------------------------- the processor on its own (C18-C20)
\* A P4SyncOutputProcessor is constructed, called with up to MaxLines lines
\* one at a time, and asked for its summary.  output_processor is the
\* processor, trace holds its log calls, fed the lines given so far.
MaxLines == 4

\* lines of p4 sync output: one of each kind, the up-to-date notice, a line
\* with no phrase, a phrase with nothing after it, a phrase twice, the
\* writable-file phrase after other text, and two phrases in one line
AggLines ==
    { <<"//d/a.txt#1", " - added as ", "/w/a.txt">>,
      <<"//d/c.txt#2", " - deleted as ", "/w/c.txt">>,
      <<"//d/b.txt#3", " - updating ", "/w/b.txt">>,
      <<cant_clobber_prefix, "a.txt">>,
      <<"//", "...", "@", "2", UpToDateTail>>,
      <<"warning">>,
      <<"//d/a.txt#1", " - added as ">>,
      <<"x", " - updating ", "y", " - updating ", "z">>,
      <<"note: ", cant_clobber_prefix, "a.txt">>,
      <<"x", " - deleted as ", "y", " - added as ", "z">> }

\* sync.py 100, 128: constructed for a forced pull (-1) or with the count of
\* the dry run
InitAgg ==
    /\ pc = "on_line"
    /\ args = [changelist |-> <<"1">>, force |-> FALSE]
    /\ target = 0
    /\ last_changelist = None
    /\ call = NoCall
    /\ output_processor \in {NewProcessor(-1), NewProcessor(MaxLines)}
    /\ commits = <<>>
    /\ trace = <<>>
    /\ ret = "none"
    /\ runs = 1
    /\ fed = <<>>
    /\ IdleExcept({"processor"})

\* P4SyncOutputProcessor.__call__ for one more line of the stream
AggOnLine ==
    /\ pc = "on_line"
    /\ Len(fed) < MaxLines
    /\ \E line \in AggLines :
        LET r == OnLine(output_processor, line)
        IN  /\ output_processor' = r.proc
            /\ trace' = trace \o r.logs
            /\ fed' = Append(fed, line)
    /\ UNCHANGED <<pc, args, target, last_changelist, call, commits, ret, runs>>
    /\ KeepExcept({"processor"})

\* sync.py 103, 133, 138: log.info(output_processor.get_summary())
AggSummary ==
    /\ pc = "on_line"
    /\ trace' = trace \o <<Info(get_summary(output_processor))>>
    /\ pc' = "summarized"
    /\ UNCHANGED <<args, target, last_changelist, call, output_processor,
                   commits, ret, runs, libVars>>

NextAgg == AggOnLine \/ AggSummary

SpecAgg == InitAgg /\ [][NextAgg]_vars

\* "add: A, upd: U" for the kinds listed, in the order listed
RECURSIVE Listing(_, _)
Listing(kinds, count) ==
    IF Len(kinds) = 0 THEN <<>>
    ELSE <<Head(kinds), ": ">> \o IntStr(count[Head(kinds)])
         \o (IF Len(kinds) > 1 THEN <<", ">> ELSE <<>>)
         \o Listing(Tail(kinds), count)

\* the line C18 describes for the counts: N = a + u - c, then the non-zero
\* counts in the order add, upd, del, clb in parentheses, if there are any
Rendered(count) ==
    LET N == count["add"] + count["upd"] - count["clb"]
        NonZero(m) == count[m] # 0
        shown == SelectSeq(<<"add", "upd", "del", "clb">>, NonZero)
    IN  IF shown = <<>>
        THEN <<"synced ">> \o IntStr(N) \o <<" files">>
        ELSE <<"synced ">> \o IntStr(N) \o <<" files (">>
             \o Listing(shown, count) \o <<")">>

\* C18: whatever lines the processor was given, the summary it reports is
\* "synced N files (add: A, upd: U, del: D, clb: C)" for its counts, with
\* N = A + U - C, the zero counts left out, and "synced 0 files" alone when
\* every count is zero.
C18_SummaryOfCounts ==
    pc = "summarized" =>
        /\ trace[Len(trace)].text = Rendered(output_processor.stats)
        /\ (\A m \in Modes : output_processor.stats[m] = 0) =>
               trace[Len(trace)].text = <<"synced ", "0", " files">>

\* one line of each kind was given: all four counts are shown, and N is 1
C18_Witness ==
    /\ pc = "summarized"
    /\ output_processor.stats = [m \in Modes |-> 1]
    /\ trace[Len(trace)].text =
           <<"synced ", "1", " files (", "add", ": ", "1", ", ",
             "upd", ": ", "1", ", ", "del", ": ", "1", ", ",
             "clb", ": ", "1", ")">>

\* the kind the processor counts the line under: none ("") for the
\* up-to-date notice and for a line that does not parse to a kind and a path
EventKind(line) ==
    LET r == parse_p4_sync_line(line)
    IN  IF IsUpToDateNotice(line) \/ r.filename = <<>> THEN "" ELSE r.mode

\* how many of the lines given so far are events of one of the kinds
EventsFed(kinds) ==
    Cardinality({k \in 1..Len(fed) : EventKind(fed[k]) \in kinds})

\* C19: after every call, synced_file_count is the sum of the four counts;
\* the counts start at zero and every line that is an event adds one to
\* synced_file_count and one to the count of its kind and of no other kind,
\* so that each count is the number of event lines of its kind given so far.
C19_ProcessedIsSumOfKinds ==
    /\ output_processor.synced_file_count
           = output_processor.stats["add"] + output_processor.stats["del"]
               + output_processor.stats["upd"] + output_processor.stats["clb"]
    /\ output_processor.synced_file_count = EventsFed(Modes)
    /\ \A m \in Modes : output_processor.stats[m] = EventsFed({m})

\* two conflicts, a deletion and an unparsable line were given: three lines
\* processed, counted under two kinds
C19_Witness ==
    /\ Len(fed) = 4
    /\ output_processor.synced_file_count = 3
    /\ output_processor.stats["clb"] = 2
    /\ output_processor.stats["del"] = 1
    /\ \E k \in 1..4 : fed[k] = <<"warning">>

\* the notice p4 prints when nothing is to be pulled: two slashes, "...@",
\* one or more digits, " - file(s) up-to-date."
IsNoticeLine(line) ==
    /\ Len(line) >= 5
    /\ SubSeq(line, 1, 3) = <<"//", "...", "@">>
    /\ \A k \in 4..(Len(line) - 1) : line[k] \in Digit
    /\ line[Len(line)] = UpToDateTail

\* the line holds none of the four shapes: no phrase of `patterns` splits it
\* in exactly two
NoShape(line) ==
    \A i \in 1..Len(patterns) :
        Cardinality(Occurrences(line, patterns[i][2])) # 1

MaxLineLen == 4

LineTokens == {" - added as ", " - deleted as ", " - updating ",
               cant_clobber_prefix, "x", " "}

LinesUpTo(n) == UNION {[1..k -> LineTokens] : k \in 0..n}

InitParse ==
    /\ pc = "parse"
    /\ sync_line \in LinesUpTo(MaxLineLen)
    /\ parsed = [mode |-> "", filename |-> <<>>]
    /\ e_stderr = <<>>
    /\ extracted = <<>>
    /\ SyncIdle
    /\ IdleExcept({"parse"})

\* mode, filename = parse_p4_sync_line(line), sync.py 64
Parse ==
    /\ pc = "parse"
    /\ parsed' = parse_p4_sync_line(sync_line)
    /\ pc' = "parsed"
    /\ UNCHANGED <<sync_line, e_stderr, extracted, syncVars>>
    /\ KeepExcept({"parse"})

NextParse == Parse

SpecParse == InitParse /\ [][NextParse]_vars

\* the four phrases and their kinds in the order C21 lists them
PhraseOrder == <<" - added as ", " - deleted as ", " - updating ",
                 "Can't clobber writable file ">>
KindOrder == <<"add", "del", "upd", "clb">>

\* where the phrase is in the line
PositionsOf(phrase) == {i \in 1..Len(sync_line) : sync_line[i] = phrase}
FirstOf(S) == CHOOSE i \in S : \A j \in S : i <= j

\* the phrases the line contains, and those it contains exactly once
Contained == {k \in 1..4 : PositionsOf(PhraseOrder[k]) # {}}
ContainedOnce == {k \in 1..4 : Cardinality(PositionsOf(PhraseOrder[k])) = 1}
TextAfter(k) ==
    SubSeq(sync_line, FirstOf(PositionsOf(PhraseOrder[k])) + 1, Len(sync_line))

\* C21 as stated: for a line that contains one of the phrases, the kind is
\* that of the earliest-listed phrase it contains and the path is the text
\* that follows that phrase.
C21_Original ==
    (pc = "parsed" /\ Contained # {}) =>
        /\ parsed.mode = KindOrder[FirstOf(Contained)]
        /\ parsed.filename = TextAfter(FirstOf(Contained))

\* C21: the phrases are tried in the order added, deleted, updated,
\* clobber-conflict, and the first one that occurs exactly once in the line
\* decides: its kind is returned with the text that follows it as the path.
\* A phrase that occurs twice or more is passed over, and a line in which no
\* phrase occurs exactly once gives (None, None).
C21_FirstPhraseOccurringOnce ==
    pc = "parsed" =>
        IF ContainedOnce = {}
        THEN parsed = [mode |-> "", filename |-> <<>>]
        ELSE /\ parsed.mode = KindOrder[FirstOf(ContainedOnce)]
             /\ parsed.filename = TextAfter(FirstOf(ContainedOnce))

\* the line holds the deleted phrase before the added phrase, once each: it
\* parses as added; and a line with the added phrase twice and the updating
\* phrase once parses as updated
C21_Witness ==
    /\ pc = "parsed"
    /\ \/ /\ sync_line = <<"x", " - deleted as ", " - added as ", "x">>
          /\ parsed = [mode |-> "add", filename |-> <<"x">>]
       \/ /\ sync_line = <<" - added as ", " - added as ", " - updating ", "x">>
          /\ parsed = [mode |-> "upd", filename |-> <<"x">>]

\* no phrase listed before the writable-file phrase decides the line
NoEarlierShape == ContainedOnce \cap {1, 2, 3} = {}

\* C22 as stated: the kind is clobber-conflict exactly for the lines that
\* begin with the writable-file phrase and hold no earlier shape, and the
\* path is then the rest of the line without its trailing whitespace.
C22_Original ==
    pc = "parsed" =>
        /\ parsed.mode = "clb"
               <=> (StartsWith(sync_line, PhraseOrder[4]) /\ NoEarlierShape)
        /\ parsed.mode = "clb" => parsed.filename = RStrip(Tail(sync_line))

\* C22: the kind is clobber-conflict exactly for the lines that hold the
\* writable-file phrase exactly once, at the start or anywhere after it, and
\* no earlier shape; the path is then the text after the phrase as it
\* stands, trailing whitespace included.
C22_ConflictPhraseAnywhere ==
    pc = "parsed" =>
        /\ parsed.mode = "clb"
               <=> (Cardinality(PositionsOf(PhraseOrder[4])) = 1
                    /\ NoEarlierShape)
        /\ parsed.mode = "clb" => parsed.filename = TextAfter(4)

\* the phrase comes after other text and the path ends in a blank: the line
\* is a clobber-conflict and the blank is part of the path
C22_Witness ==
    /\ pc = "parsed"
    /\ sync_line = <<"x", "Can't clobber writable file ", "x", " ">>
    /\ parsed = [mode |-> "clb", filename |-> <<"x", " ">>]

\* ------------------------------- get_writable_files on its own (C23)
\* Every list of up to MaxStderr lines over: a conflict line, the same with
\* trailing blanks, a conflict line for another path, a line of other text,
\* and a line with the phrase after other text.
MaxStderr == 3

StderrLines ==
    { <<cant_clobber_prefix, "a.txt">>,
      <<cant_clobber_prefix, "a.txt", " ", "\n">>,
      <<cant_clobber_prefix, "b/c.txt">>,
      <<"some other message">>,
      <<"note: ", cant_clobber_prefix, "a.txt">> }

InitExtract ==
    /\ pc = "extract"
    /\ sync_line = <<>>
    /\ parsed = [mode |-> "", filename |-> <<>>]
    /\ e_stderr \in UNION {[1..k -> StderrLines] : k \in 0..MaxStderr}
    /\ extracted = <<>>
    /\ SyncIdle
    /\ IdleExcept({"parse"})

\* writable_files = get_writable_files(e.stderr), sync.py 139
Extract ==
    /\ pc = "extract"
    /\ extracted' = get_writable_files(e_stderr)
    /\ pc' = "extracted"
    /\ UNCHANGED <<sync_line, parsed, e_stderr, syncVars>>
    /\ KeepExcept({"parse"})

NextExtract == Extract

SpecExtract == InitExtract /\ [][NextExtract]_vars

\* the lines of e_stderr that start with the writable-file phrase, in order
ConflictLines ==
    LET Starts(l) == Len(l) > 0 /\ l[1] = "Can't clobber writable file "
    IN  SelectSeq(e_stderr, Starts)

\* the text after the first token, without the blanks at its end
RECURSIVE PathOf(_)
PathOf(l) ==
    IF Len(l) > 1 /\ l[Len(l)] \in {" ", "\n"}
    THEN PathOf(SubSeq(l, 1, Len(l) - 1))
    ELSE Tail(l)

\* C23: get_writable_files returns one path for each line that starts with
\* the writable-file phrase and nothing for the other lines: the paths come
\* in the order of their lines, a path met twice is returned twice, each is
\* the rest of its line without trailing whitespace, and the list is empty
\* when no line starts with the phrase.
C23_OnePathPerConflictLine ==
    pc = "extracted" =>
        /\ Len(extracted) = Len(ConflictLines)
        /\ \A k \in 1..Len(extracted) : extracted[k] = PathOf(ConflictLines[k])
        /\ ConflictLines = <<>> => extracted = <<>>

\* the same path twice, once with trailing blanks, around a line of other
\* text: it is returned twice
C23_Witness ==
    /\ pc = "extracted"
    /\ e_stderr = << <<cant_clobber_prefix, "a.txt", " ", "\n">>,
                     <<"some other message">>,
                     <<cant_clobber_prefix, "a.txt">> >>
    /\ extracted = << <<"a.txt">>, <<"a.txt">> >>

\* ------------------------------------------------------ "latest" (C24)
\* the run ended with the exception raised at index j, before any pull or
\* commit
FatalAt(j) ==
    /\ j = Len(trace)
    /\ trace[j] = Raised
    /\ pc = "done"
    /\ ret = "raised"
    /\ NoPulls
    /\ NoCommit

\* C24: when the target is "latest", p4 info is asked for the client name.
\* Without a client name the run ends there with an exception; with one,
\* p4 changes is asked for that client, and the run ends with an exception
\* when it prints no line or a first line without 'Change <digits>'.  In
\* these cases no pull and no commit is made.  Otherwise the target is the
\* number after 'Change' in the first line.
C24_LatestOrFatal ==
    \A i \in Indices({"p4 info"}) :
        IF ClientName(trace[i].out) = <<>>
        THEN FatalAt(i + 1)
        ELSE /\ trace[i + 1].kind = "p4 changes"
             /\ trace[i + 1].text = ClientName(trace[i].out)
             /\ LET changes == trace[i + 1].out
                IN  IF changes = <<>> \/ ParseChange(changes[1]) = None
                    THEN FatalAt(i + 2)
                    ELSE /\ target = ParseChange(changes[1])[1]
                         /\ trace[i + 2] =
                                Detail(<<"latest: CL ">> \o IntStr(target))

\* "latest" was resolved to 2 from 'Change 2 on ...' for client ws, and the
\* run went on to pull
C24_Witness ==
    /\ \E i \in Indices({"p4 info"}) :
           /\ trace[i + 1].kind = "p4 changes"
           /\ trace[i + 1].text = <<"ws">>
           /\ trace[i + 1].out =
                  << <<"Change ", "2", " on 2024/01/01 by u@ws">> >>
    /\ target = 2
    /\ ~NoPulls

\* ------------------------------------------------ Log (log.py, C25-C27)
\* One Log object receives up to MaxLogCalls calls of heading, error,
\* start_spinner and stop_spinner from the main thread; the threads that
\* start_spinner creates run _spin beside it and write up to MaxFrames
\* frames between them.  A write is one entry of sys_stdout or sys_stderr.
MaxLogCalls == 3
MaxFrames == 2

HEADING_PREFIX == "#"
SPINNER_CHARS == <<"|", "/", "-", "\\">>
LogTexts == {"A", "B"}

InitLog ==
    /\ pc = "log"
    /\ log = [heading_count |-> 0, spinner_thread |-> 0, spinner_stop |-> FALSE]
    /\ spinners = <<>>
    /\ sys_stdout = <<>>
    /\ sys_stderr = <<>>
    /\ calls = <<>>
    /\ SyncIdle
    /\ IdleExcept({"log"})

Called(op, text) == Append(calls, [op |-> op, text |-> text])

\* a variant that prints the blank line before every heading
heading_AlwaysBlank(heading_count, text) ==
    << <<"\n">>, <<HEADING_PREFIX, " ", text, "\n">> >>

\* Log.heading, log.py 30-35: what it prints
heading(heading_count, text) ==
    (IF heading_count > 0 THEN << <<"\n">> >> ELSE <<>>)
        \o << <<HEADING_PREFIX, " ", text, "\n">> >>

LogHeading ==
    /\ pc = "log"
    /\ Len(calls) < MaxLogCalls
    /\ \E text \in LogTexts :
        /\ sys_stdout' = sys_stdout \o heading(log.heading_count, text)
        /\ calls' = Called("heading", text)
    /\ log' = [log EXCEPT !.heading_count = @ + 1]
    /\ UNCHANGED <<pc, spinners, sys_stderr, syncVars>>
    /\ KeepExcept({"log"})

\* Log.error, log.py 71-73: print(text, file=sys.stderr)
LogError ==
    /\ pc = "log"
    /\ Len(calls) < MaxLogCalls
    /\ \E text \in LogTexts :
        /\ sys_stderr' = Append(sys_stderr, <<text, "\n">>)
        /\ calls' = Called("error", text)
    /\ UNCHANGED <<pc, log, spinners, sys_stdout, syncVars>>
    /\ KeepExcept({"log"})

\* Log.start_spinner, log.py 79-84
StartSpinner ==
    /\ pc = "log"
    /\ Len(calls) < MaxLogCalls
    /\ spinners' = Append(spinners, [at |-> "wait", idx |-> 0])
    /\ log' = [log EXCEPT !.spinner_stop = FALSE,
                          !.spinner_thread = Len(spinners) + 1]
    /\ calls' = Called("start_spinner", "")
    /\ UNCHANGED <<pc, sys_stdout, sys_stderr, syncVars>>
    /\ KeepExcept({"log"})

\* Log.stop_spinner, log.py 86-90: return at once without a thread, else set
\* the event and join the thread
StopSpinner ==
    /\ pc = "log"
    /\ Len(calls) < MaxLogCalls
    /\ IF log.spinner_thread = 0
       THEN /\ calls' = Called("stop_spinner", "")
            /\ UNCHANGED <<pc, log>>
       ELSE /\ log' = [log EXCEPT !.spinner_stop = TRUE]
            /\ pc' = "join"
            /\ calls' = calls
    /\ UNCHANGED <<spinners, sys_stdout, sys_stderr, syncVars>>
    /\ KeepExcept({"log"})

\* log.py 90-96: join() returns once the thread has ended; the line is
\* printed again (_spinner_line is '' here) and stop_spinner returns
StopSpinnerJoined ==
    /\ pc = "join"
    /\ spinners[log.spinner_thread].at = "dead"
    /\ log' = [log EXCEPT !.spinner_thread = 0]
    /\ sys_stdout' = sys_stdout \o << <<"\r">>, <<"\n">> >>
    /\ calls' = Called("stop_spinner", "")
    /\ pc' = "log"
    /\ UNCHANGED <<spinners, sys_stderr, syncVars>>
    /\ KeepExcept({"log"})

\* the frames written or about to be written
Frames ==
    Cardinality({i \in 1..Len(sys_stdout) : Len(sys_stdout[i]) = 3})
        + Cardinality({t \in 1..Len(spinners) : spinners[t].at = "write"})

\* Log._spin, log.py 102: _spinner_stop.wait(interval) returns True when the
\* event is set, and the thread ends, or False after the interval
SpinWait ==
    /\ \E t \in 1..Len(spinners) :
        /\ spinners[t].at = "wait"
        /\ IF log.spinner_stop
           THEN spinners' = [spinners EXCEPT ![t].at = "dead"]
           ELSE /\ Frames < MaxFrames
                /\ spinners' = [spinners EXCEPT ![t].at = "write"]
    /\ UNCHANGED <<pc, log, sys_stdout, sys_stderr, calls, syncVars>>
    /\ KeepExcept({"log"})

\* Log._spin, log.py 103-106: one frame is written
SpinWrite ==
    /\ \E t \in 1..Len(spinners) :
        /\ spinners[t].at = "write"
        /\ sys_stdout' = Append(sys_stdout,
               <<"\r", " ", SPINNER_CHARS[(spinners[t].idx % 4) + 1]>>)
        /\ spinners' = [spinners EXCEPT ![t].at = "wait", ![t].idx = @ + 1]
    /\ UNCHANGED <<pc, log, sys_stderr, calls, syncVars>>
    /\ KeepExcept({"log"})

NextLog ==
    \/ LogHeading
    \/ LogError
    \/ StartSpinner
    \/ StopSpinner
    \/ StopSpinnerJoined
    \/ SpinWait
    \/ SpinWrite

SpecLog == InitLog /\ [][NextLog]_vars

\* stop_spinner was the last call and has returned
StopReturned ==
    /\ pc = "log"
    /\ calls # <<>>
    /\ calls[Len(calls)].op = "stop_spinner"

Ops(op) == {i \in 1..Len(calls) : calls[i].op = op}

\* C25 as stated: once stop_spinner has returned, _spinner_thread is None
\* and no thread is left in _spin, whatever calls of start_spinner and
\* stop_spinner came before; and stop_spinner writes nothing when no spinner
\* was ever started.
C25_Original ==
    /\ StopReturned =>
           /\ log.spinner_thread = 0
           /\ \A t \in 1..Len(spinners) : spinners[t].at = "dead"
    /\ Ops("start_spinner") = {} =>
           \A i \in 1..Len(sys_stdout) : sys_stdout[i][1] # "\r"

\* the headings of the calls made, in order
HeadingsCalled ==
    LET IsHeading(c) == c.op = "heading" IN SelectSeq(calls, IsHeading)

\* what a fresh Log prints for the headings: the first as it is, every later
\* one after one empty line
RECURSIVE Headed(_, _)
Headed(hs, k) ==
    IF k > Len(hs) THEN <<>>
    ELSE (IF k = 1 THEN <<>> ELSE << <<"\n">> >>)
         \o << <<"#", " ", hs[k].text, "\n">> >>
         \o Headed(hs, k + 1)

\* C26: on a fresh Log the first heading is printed with nothing before it
\* and every later heading right after exactly one blank line: while no
\* spinner has been started, sys.stdout holds the headings called so far,
\* separated by single blank lines, and nothing else.
C26_BlankLineBetweenHeadings ==
    Ops("start_spinner") = {} => sys_stdout = Headed(HeadingsCalled, 1)

\* three headings were printed, with two blank lines between them
C26_Witness ==
    /\ Len(HeadingsCalled) = 3
    /\ sys_stdout = << <<"#", " ", "A", "\n">>, <<"\n">>,
                       <<"#", " ", "B", "\n">>, <<"\n">>,
                       <<"#", " ", "A", "\n">> >>

\* the error messages of the calls made, in order
ErrorsCalled ==
    LET IsError(c) == c.op = "error" IN SelectSeq(calls, IsError)

\* C27 as stated: every call of error writes "Error: ", the text and a
\* newline to sys.stderr, and error writes nothing to sys.stdout.
C27_Original ==
    /\ sys_stderr = [k \in 1..Len(ErrorsCalled) |->
                         <<"Error: ", ErrorsCalled[k].text, "\n">>]
    /\ Ops("start_spinner") = {} => sys_stdout = Headed(HeadingsCalled, 1)

\* ----------------------------- alias_clean_command (alias.py 80-138, C28)
\* The command runs over the first n of three stored aliases, n up to
\* MaxAliases, and reads up to MaxPrompts responses from the user; after
\* that the input is at its end.  trace holds what is printed, what is
\* read, and the calls of delete_changelist_alias.
MaxAliases == 3
MaxPrompts == 4

StoredAliases == <<[name |-> "fix", changelist |-> "1"],
                   [name |-> "wip", changelist |-> "2"],
                   [name |-> "old", changelist |-> "3"],
                   [name |-> "tmp", changelist |-> "4"]>>

\* what the user types at the prompt
Responses == { <<"y">>, <<" ", "YES", "\n">>, <<"n">>, <<"no">>, <<"a">>,
               <<"All">>, <<"q">>, <<"quit">>, <<"maybe">>, <<>> }

Printed(text) == Ev("print", 0, text)
Deleted(name) == << Ev("delete_changelist_alias", 0, <<name>>),
                    Printed(<<"  Deleted">>) >>
DeletedCount(n) == Printed(<<"Deleted ">> \o IntStr(n) \o <<" alias(es)">>)

InitAlias ==
    /\ pc = "clean"
    /\ \E n \in 0..MaxAliases :
           frame = [aliases |-> SubSeq(StoredAliases, 1, n), i |-> 1,
                    delete_all |-> FALSE, deleted_count |-> 0]
    /\ args = [changelist |-> <<"1">>, force |-> FALSE]
    /\ target = 0
    /\ last_changelist = None
    /\ call = NoCall
    /\ output_processor = NoProcessor
    /\ commits = <<>>
    /\ trace = <<>>
    /\ ret = "none"
    /\ runs = 1
    /\ IdleExcept({"command"})

\* alias.py 92-95 and one pass of the for statement at 100-108: the end of
\* the list, the header of the next alias, and its deletion under delete_all
AliasNext ==
    /\ pc = "clean"
    /\ IF frame.aliases = <<>>
       THEN /\ trace' = trace \o <<Info(<<"No aliases to clean">>)>>
            /\ ret' = "0" /\ pc' = "done" /\ frame' = frame
       ELSE IF frame.i > Len(frame.aliases)
       THEN /\ trace' = trace \o <<DeletedCount(frame.deleted_count)>>
            /\ ret' = "0" /\ pc' = "done" /\ frame' = frame
       ELSE LET a == frame.aliases[frame.i]
                header == Printed(<<a.name, " -> ", a.changelist>>)
            IN  IF frame.delete_all
                THEN /\ trace' = trace \o <<header>> \o Deleted(a.name)
                     /\ frame' = [frame EXCEPT !.i = @ + 1,
                                               !.deleted_count = @ + 1]
                     /\ UNCHANGED <<pc, ret>>
                ELSE /\ trace' = trace \o <<header>>
                     /\ pc' = "prompt"
                     /\ UNCHANGED <<frame, ret>>
    /\ UNCHANGED <<args, target, last_changelist, call, output_processor,
                   commits, runs>>
    /\ KeepExcept({"command"})

\* a variant that compares the response as typed
Normalize_AsTyped(response) == response

\* input(...).strip().lower(), alias.py 112-113
Normalize(response) == Lower(Strip(response))

Prompts == Cardinality(Indices({"input", "EOFError"}))

\* alias.py 110-135: one pass of the while statement
AliasPrompt ==
    /\ pc = "prompt"
    /\ \E typed \in Responses \cup {<<"EOF">>} :
        LET name == frame.aliases[frame.i].name
            response == Normalize(typed)
            read == trace \o <<Ev("input", 0, typed)>>
        IN  /\ typed = <<"EOF">> \/ Prompts < MaxPrompts
            /\ IF typed = <<"EOF">>
               THEN /\ trace' = trace \o <<Ev("EOFError", 0, <<>>), Printed(<<>>)>>
                    /\ ret' = "0" /\ pc' = "done" /\ frame' = frame
               ELSE IF response \in {<<"y">>, <<"yes">>}
               THEN /\ trace' = read \o Deleted(name)
                    /\ frame' = [frame EXCEPT !.i = @ + 1,
                                              !.deleted_count = @ + 1]
                    /\ pc' = "clean" /\ ret' = ret
               ELSE IF response \in {<<"n">>, <<"no">>}
               THEN /\ trace' = read
                    /\ frame' = [frame EXCEPT !.i = @ + 1]
                    /\ pc' = "clean" /\ ret' = ret
               ELSE IF response \in {<<"a">>, <<"all">>}
               THEN /\ trace' = read \o Deleted(name)
                    /\ frame' = [frame EXCEPT !.i = @ + 1,
                                              !.deleted_count = @ + 1,
                                              !.delete_all = TRUE]
                    /\ pc' = "clean" /\ ret' = ret
               ELSE IF response \in {<<"q">>, <<"quit">>}
               THEN /\ trace' = read \o <<DeletedCount(frame.deleted_count)>>
                    /\ ret' = "0" /\ pc' = "done" /\ frame' = frame
               ELSE /\ trace' = read \o <<Printed(<<"Please enter y, n, a, or q">>)>>
                    /\ UNCHANGED <<pc, ret, frame>>
    /\ UNCHANGED <<args, target, last_changelist, call, output_processor,
                   commits, runs>>
    /\ KeepExcept({"command"})

NextAlias == AliasNext \/ AliasPrompt

SpecAlias == InitAlias /\ [][NextAlias]_vars

\* what the user meant by a response, read off the prompt
\* 'Delete? [y]es / [n]o / [a]ll / [q]uit: ' without regard to case or to
\* the blanks around the word
Meant(typed) ==
    CASE typed \in {<<"y">>, <<" ", "YES", "\n">>} -> "yes"
      [] typed \in {<<"n">>, <<"no">>} -> "no"
      [] typed \in {<<"a">>, <<"All">>} -> "all"
      [] typed \in {<<"q">>, <<"quit">>} -> "quit"
      [] OTHER -> "unrecognized"

Answers(meanings) ==
    {i \in Indices({"input"}) : Meant(trace[i].text) \in meanings}
Headers ==
    {i \in Indices({"print"}) :
        Len(trace[i].text) = 3 /\ trace[i].text[2] = " -> "}
\* the alias an event at position i of the trace is about
AliasAt(i) ==
    LET before == {h \in Headers : h < i}
        h == CHOOSE x \in before : \A y \in before : y <= x
    IN  trace[h].text[1]
DeleteCalls == Indices({"delete_changelist_alias"})
PositionOfAlias(name) ==
    CHOOSE k \in 1..Len(frame.aliases) : frame.aliases[k].name = name

\* C28: in alias_clean_command, for any list of aliases and any responses,
\* an alias is deleted only after a yes or all response for it or after an
\* earlier all response (and a yes or all response is followed at once by
\* the deletion of its alias); after all nothing more is read and, once the
\* command has returned, every remaining alias has been deleted; after quit
\* or the end of the input no alias is deleted; an unrecognized response is
\* followed by 'Please enter y, n, a, or q' and the next response is read
\* for the same alias; and a printed 'Deleted N alias(es)' has N equal to
\* the number of delete_changelist_alias calls made.
C28_CleanFollowsResponses ==
    pc \in {"clean", "prompt", "done"} /\ frame # <<>> =>
        /\ \A j \in DeleteCalls :
               \E i \in Answers({"yes", "all"}) :
                   /\ i < j
                   /\ Meant(trace[i].text) = "all"
                          \/ AliasAt(i) = trace[j].text[1]
        /\ \A i \in Answers({"yes", "all"}) :
               /\ i + 1 \in DeleteCalls
               /\ trace[i + 1].text = <<AliasAt(i)>>
        /\ \A i \in Answers({"all"}) :
               /\ \A k \in Indices({"input", "EOFError"}) : k <= i
               /\ pc = "done" =>
                      \A k \in PositionOfAlias(AliasAt(i))..Len(frame.aliases) :
                          \E j \in DeleteCalls :
                              trace[j].text = <<frame.aliases[k].name>>
        /\ \A i \in Answers({"quit"}) \cup Indices({"EOFError"}) :
               \A j \in DeleteCalls : j < i
        /\ \A i \in Answers({"unrecognized"}) :
               /\ i < Len(trace)
               /\ trace[i + 1] = Ev("print", 0, <<"Please enter y, n, a, or q">>)
               /\ i + 1 = Len(trace) => pc = "prompt"
               /\ i + 1 < Len(trace) =>
                      /\ trace[i + 2].kind \in {"input", "EOFError"}
                      /\ AliasAt(i + 2) = AliasAt(i)
        /\ \A p \in Indices({"print"}) :
               Len(trace[p].text) > 0 /\ trace[p].text[1] = "Deleted " =>
                   trace[p].text = <<"Deleted ">>
                                   \o IntStr(Cardinality(DeleteCalls))
                                   \o <<" alias(es)">>

\* a run that returned after an unrecognized response, a yes typed in
\* capitals with blanks around it, and an all that left one more alias to
\* delete without a prompt, reporting three deletions
C28_Witness ==
    /\ pc = "done" /\ frame # <<>>
    /\ Answers({"unrecognized"}) # {}
    /\ \E i \in Answers({"yes"}) : trace[i].text = <<" ", "YES", "\n">>
    /\ \E i \in Answers({"all"}) :
           /\ trace[i].text = <<"All">>
           /\ \E j \in DeleteCalls : j > i + 1
    /\ trace[Len(trace)].text = <<"Deleted ", "3", " alias(es)">>

\* ------------------------------------------------ new_command (new.py 20-77)
\* frame holds the arguments of the run and whether the alias file exists
\* when the command starts.  trace holds the headings and the calls made on
\* changelist_store and lib.  Each of those calls returns or raises, and
\* save_changelist_alias may also return False.
NewArgs ==
    [alias : BOOLEAN, dry_run : BOOLEAN, force : BOOLEAN, no_edit : BOOLEAN,
     review : BOOLEAN, shelve : BOOLEAN, exists : BOOLEAN]

InitNew ==
    /\ pc = "new"
    /\ frame \in NewArgs
    /\ args = [changelist |-> <<"1">>, force |-> FALSE]
    /\ target = 0
    /\ last_changelist = None
    /\ call = NoCall
    /\ output_processor = NoProcessor
    /\ commits = <<>>
    /\ trace = <<>>
    /\ ret = "none"
    /\ runs = 1
    /\ IdleExcept({"command"})

\* a variant that shelves only when --shelve is given
ShelveRequested_ShelveOnly(a) == a.shelve

\* new.py 71: args.shelve or args.review
ShelveRequested(a) == a.shelve \/ a.review

\* the steps of new_command leave everything but pc, trace and ret alone
NewKeeps ==
    /\ UNCHANGED <<args, target, last_changelist, call, output_processor,
                   commits, runs, frame>>
    /\ KeepExcept({"command"})

\* new.py 36-48: the check of the alias file, then create_changelist
NewCreate ==
    /\ pc = "new"
    /\ IF frame.alias /\ ~frame.dry_run /\ frame.exists /\ ~frame.force
       THEN /\ trace' = trace \o <<Ev("error", 0, <<"Alias already exists">>)>>
            /\ ret' = "1" /\ pc' = "done"
       ELSE \E raised \in BOOLEAN :
            /\ trace' = trace \o <<Ev("heading", 0, <<"Creating changelist">>),
                                    Ev("create_changelist", 0, <<>>)>>
            /\ IF raised THEN ret' = "raised" /\ pc' = "done"
               ELSE ret' = ret /\ pc' = "new_alias"
    /\ NewKeeps

\* new.py 50-57: the alias is saved outside a dry run
NewAlias ==
    /\ pc = "new_alias"
    /\ IF ~frame.dry_run /\ frame.alias
       THEN \E outcome \in {"True", "False", "raised"} :
            /\ trace' = trace \o <<Ev("save_changelist_alias", 0, <<>>)>>
            /\ IF outcome = "True" THEN ret' = ret /\ pc' = "new_edit"
               ELSE IF outcome = "False" THEN ret' = "1" /\ pc' = "done"
               ELSE ret' = "raised" /\ pc' = "done"
       ELSE UNCHANGED <<trace, ret>> /\ pc' = "new_edit"
    /\ NewKeeps

\* new.py 59-63: open_changes_for_edit unless --no-edit
NewEdit ==
    /\ pc = "new_edit"
    /\ IF ~frame.no_edit
       THEN \E raised \in BOOLEAN :
            /\ trace' = trace \o <<Ev("heading", 0, <<"Opening files for edit">>),
                                    Ev("open_changes_for_edit", 0, <<>>)>>
            /\ IF raised THEN ret' = "raised" /\ pc' = "done"
               ELSE ret' = ret /\ pc' = "new_review"
       ELSE UNCHANGED <<trace, ret>> /\ pc' = "new_review"
    /\ NewKeeps

\* new.py 65-77: the review keyword, the shelve, and 'Done'
NewShelve ==
    /\ pc = "new_review"
    /\ \E keyword_raised, shelve_raised \in BOOLEAN :
        LET keyword == IF frame.review
                       THEN <<Ev("heading", 0, <<"Adding review keyword">>),
                              Ev("add_review_keyword_to_changelist", 0, <<>>)>>
                       ELSE <<>>
            shelved == IF ShelveRequested(frame)
                       THEN <<Ev("heading", 0, <<"Shelving">>),
                              Ev("p4_shelve_changelist", 0, <<>>)>>
                       ELSE <<>>
        IN  /\ keyword_raised => frame.review
            /\ shelve_raised => ShelveRequested(frame) /\ ~keyword_raised
            /\ IF keyword_raised
               THEN trace' = trace \o keyword /\ ret' = "raised"
               ELSE IF shelve_raised
               THEN trace' = trace \o keyword \o shelved /\ ret' = "raised"
               ELSE /\ trace' = trace \o keyword \o shelved \o <<Info(<<"Done">>)>>
                    /\ ret' = "0"
            /\ pc' = "done"
    /\ NewKeeps

NextNew == NewCreate \/ NewAlias \/ NewEdit \/ NewShelve

SpecNew == InitNew /\ [][NextNew]_vars

NewCalls ==
    Indices({"create_changelist", "save_changelist_alias",
             "open_changes_for_edit", "add_review_keyword_to_changelist",
             "p4_shelve_changelist"})

\* C29: in new_command, when an alias is given outside a dry run, its file
\* exists and force is not set, the command returns 1 having called neither
\* create_changelist nor open_changes_for_edit nor p4_shelve_changelist;
\* in a dry run save_changelist_alias is never called; the review keyword is
\* added before the shelve; the shelve is called only when shelve or review
\* is requested, and a run that returns 0 with either requested has called
\* it.
C29_AliasCheckedFirstShelveLast ==
    pc \in {"new", "new_alias", "new_edit", "new_review", "done"}
    /\ frame \in NewArgs =>
        /\ frame.alias /\ ~frame.dry_run /\ frame.exists /\ ~frame.force =>
               /\ NewCalls = {}
               /\ pc = "done" => ret = "1"
        /\ frame.dry_run => Indices({"save_changelist_alias"}) = {}
        /\ \A s \in Indices({"p4_shelve_changelist"}) :
               /\ frame.shelve \/ frame.review
               /\ frame.review =>
                      \E k \in Indices({"add_review_keyword_to_changelist"}) :
                          k < s
               /\ \A k \in Indices({"add_review_keyword_to_changelist"}) :
                      k < s
        /\ ret = "0" /\ (frame.shelve \/ frame.review) =>
               Indices({"p4_shelve_changelist"}) # {}

\* a run with --review and --shelve refused for the existing alias
C29_Witness ==
    /\ pc = "done" /\ frame \in NewArgs
    /\ frame.alias /\ ~frame.dry_run /\ frame.exists /\ ~frame.force
    /\ frame.review /\ frame.shelve /\ ~frame.no_edit
    /\ ret = "1"
    /\ Len(trace) = 1 /\ trace[1].kind = "error"

\* ------------------------------------------- review_command (review.py)
\* frame holds the arguments of the run, the lines of git log --oneline,
\* whether the alias file exists at the start, the generated todo and
\* whether the todo file is present.  trace holds what is logged and what
\* is done to the file.  commit_lines are the first n lines of
\* CommitLines, n up to MaxCommits.
MaxCommits == 3

CommitLines == << <<"a1", " ", "Fix", " ", "it">>, <<"b2">>,
                  <<"c3", " ", "More">>, <<"d4", " ", "Last">> >>
Aliases == { <<"fix">>, <<"my", " ", "cl">> }
Messages == { <<"Fix">>, <<"Fix", " ", "it">>, <<"it", "'", "s">>,
              <<"Title", "\n", "Body">> }

\* shlex.quote: the text as it is when every character is safe, and
\* otherwise in single quotes with each single quote written '"'"'
quote(s) ==
    IF s = <<>> THEN <<"''">>
    ELSE IF \A i \in 1..Len(s) : s[i] \notin {" ", "\n", "'"} THEN s
    ELSE LET RECURSIVE escaped(_)
             escaped(t) ==
                 IF t = <<>> THEN <<>>
                 ELSE (IF Head(t) = "'" THEN <<"'\"'\"'">> ELSE <<Head(t)>>)
                      \o escaped(Tail(t))
         IN  <<"'">> \o escaped(s) \o <<"'">>

\* review.py 37-73
generate_todo(commit_lines, alias, message, force) ==
    LET last_index == Len(commit_lines) - 1
        \* commit_line.split(' ', 1)
        space(l) == IF \E k \in 1..Len(l) : l[k] = " "
                    THEN CHOOSE k \in 1..Len(l) :
                             l[k] = " " /\ \A j \in 1..(k - 1) : l[j] # " "
                    ELSE 0
        commit_hash(l) == IF space(l) = 0 THEN l ELSE SubSeq(l, 1, space(l) - 1)
        subject(l) == IF space(l) = 0 THEN <<>>
                      ELSE SubSeq(l, space(l) + 1, Len(l))
        pick(l) == <<"pick", " ">> \o commit_hash(l) \o <<" ">> \o subject(l)
        cmd(i) ==
            (IF i = 0
             THEN <<"new", " ">> \o quote(alias) \o <<" ", "--review", " ", "-m", " ">>
                  \o quote(message)
                  \o (IF force THEN <<" ", "--force">> ELSE <<>>)
             ELSE <<"update", " ">> \o quote(alias) \o <<" ", "--shelve">>)
            \o (IF i < last_index THEN <<" ", "--sleep", " ", "5">> ELSE <<>>)
        exec(i) == <<"exec", " ", "git", " ", "p4son", " ">> \o cmd(i)
        RECURSIVE joined(_)
        joined(i) ==
            IF i > last_index THEN <<>>
            ELSE (IF i > 0 THEN <<"\n">> ELSE <<>>)
                 \o pick(commit_lines[i + 1]) \o <<"\n">> \o exec(i)
                 \o joined(i + 1)
    IN  joined(0) \o <<"\n">>

InitReview ==
    /\ pc = "review"
    /\ \E n \in 0..MaxCommits, alias \in Aliases, message \in Messages,
          force, dry_run, exists \in BOOLEAN :
           frame = [commit_lines |-> SubSeq(CommitLines, 1, n),
                    alias |-> alias, message |-> message, force |-> force,
                    dry_run |-> dry_run, exists |-> exists,
                    todo_content |-> <<>>, todo_file |-> FALSE]
    /\ args = [changelist |-> <<"1">>, force |-> FALSE]
    /\ target = 0
    /\ last_changelist = None
    /\ call = NoCall
    /\ output_processor = NoProcessor
    /\ commits = <<>>
    /\ trace = <<>>
    /\ ret = "none"
    /\ runs = 1
    /\ IdleExcept({"command"})

\* review.py 89-125: up to the return of a dry run or the written file
ReviewGenerate ==
    /\ pc = "review"
    /\ IF ~frame.dry_run /\ frame.exists /\ ~frame.force
       THEN /\ trace' = trace \o <<Ev("error", 0, <<"Alias already exists">>)>>
            /\ ret' = "1" /\ pc' = "done" /\ frame' = frame
       ELSE IF frame.commit_lines = <<>>
       THEN /\ trace' = trace \o <<Ev("heading", 0, <<"Finding commits">>),
                                    Ev("error", 0, <<"No commits found">>)>>
            /\ ret' = "1" /\ pc' = "done" /\ frame' = frame
       ELSE LET todo_content == generate_todo(frame.commit_lines, frame.alias,
                                              frame.message, frame.force)
                found == <<Ev("heading", 0, <<"Finding commits">>),
                           Info(IntStr(Len(frame.commit_lines)) \o <<" commits">>),
                           Ev("heading", 0, <<"Generating rebase todo">>)>>
            IN  IF frame.dry_run
                THEN /\ trace' = trace \o found
                                 \o <<Info(<<"Generated rebase todo:">>),
                                      Info(todo_content)>>
                     /\ frame' = [frame EXCEPT !.todo_content = todo_content]
                     /\ ret' = "0" /\ pc' = "done"
                ELSE /\ trace' = trace \o found
                                 \o <<Ev("write", 0, todo_content)>>
                     /\ frame' = [frame EXCEPT !.todo_content = todo_content,
                                               !.todo_file = TRUE]
                     /\ ret' = ret /\ pc' = "rebase"
    /\ UNCHANGED <<args, target, last_changelist, call, output_processor,
                   commits, runs>>
    /\ KeepExcept({"command"})

\* review.py 127-148: git rebase -i returns 0, returns 1 or cannot be run;
\* the sequence editor may have removed the file meanwhile
ReviewRebase ==
    /\ pc = "rebase"
    /\ \E result \in {"0", "1", "raised"}, still_there \in BOOLEAN :
        LET ran == <<Ev("heading", 0, <<"Running interactive rebase">>),
                     Ev("git rebase -i", 0, <<>>)>>
            logged == IF result = "0" THEN <<Info(<<"Done">>)>>
                      ELSE IF result = "1"
                      THEN <<Ev("error", 0, <<"Rebase did not complete successfully.">>),
                             Ev("error", 0, <<"You can fix any issues and run: git rebase --continue">>)>>
                      ELSE <<>>
            removed == IF still_there THEN <<Ev("os.remove", 0, <<>>)>> ELSE <<>>
        IN  /\ trace' = trace \o ran \o logged \o removed
            /\ frame' = [frame EXCEPT !.todo_file = FALSE]
            /\ ret' = result /\ pc' = "done"
    /\ UNCHANGED <<args, target, last_changelist, call, output_processor,
                   commits, runs>>
    /\ KeepExcept({"command"})

NextReview == ReviewGenerate \/ ReviewRebase

SpecReview == InitReview /\ [][NextReview]_vars

\* the lines of a text that ends with a newline
TodoLines(content) ==
    LET ends == {k \in 1..Len(content) : content[k] = "\n"}
        nth(k) == CHOOSE e \in ends : Cardinality({x \in ends : x < e}) = k - 1
        from(k) == IF k = 1 THEN 1 ELSE nth(k - 1) + 1
    IN  [k \in 1..Cardinality(ends) |-> SubSeq(content, from(k), nth(k) - 1)]

Begins(l, prefix) ==
    Len(l) >= Len(prefix) /\ SubSeq(l, 1, Len(prefix)) = prefix
Sleeps(l) ==
    Len(l) >= 4 /\ SubSeq(l, Len(l) - 3, Len(l)) = <<" ", "--sleep", " ", "5">>
Has(l, word) == \E k \in 1..Len(l) : l[k] = word

\* C30: for n >= 1 commit lines the generated todo has 2n lines, a pick of
\* each commit followed by an exec, in commit order; the first exec runs
\* new with --review and -m, and with --force exactly when force is set; the
\* later ones run update with --shelve; every exec but the last ends with
\* --sleep 5; review_command writes no file in a dry run and leaves no todo
\* file behind when it ends.
C30_Original ==
    pc \in {"review", "rebase", "done"} /\ frame # <<>> =>
        /\ frame.todo_content # <<>> =>
            LET n == Len(frame.commit_lines)
                lines == TodoLines(frame.todo_content)
            IN  /\ Len(lines) = 2 * n
                /\ \A k \in 1..n :
                       /\ Begins(lines[2 * k - 1],
                                 <<"pick", " ", frame.commit_lines[k][1]>>)
                       /\ Begins(lines[2 * k],
                                 <<"exec", " ", "git", " ", "p4son", " ",
                                   IF k = 1 THEN "new" ELSE "update", " ">>)
                       /\ IF k = 1
                          THEN /\ Has(lines[2], "--review") /\ Has(lines[2], "-m")
                               /\ Has(lines[2], "--force") <=> frame.force
                          ELSE Has(lines[2 * k], "--shelve")
                       /\ Sleeps(lines[2 * k]) <=> k < n
        /\ frame.dry_run => Indices({"write"}) = {}
        /\ pc = "done" => ~frame.todo_file

\* ------------------------------------------ consecutive runs (C31)
\* the position of the most recent marker of a history, -1 without one
MarkerPosition(history) ==
    IF MostRecentMarker(history) = None THEN -1
    ELSE MostRecentMarker(history)[1]

\* C31: across consecutive runs of sync_command, a step of a run without
\* --force never lowers the position of the most recent marker commit, and
\* any step leaves the history as it is or puts one marker commit on top
\* of it, which ends the run.
C31_Original ==
    [][ /\ ~args.force => MarkerPosition(commits') >= MarkerPosition(commits)
        /\ \/ commits' = commits
           \/ /\ Len(commits') = Len(commits) + 1
              /\ Tail(commits') = commits
              /\ IsMarker(Head(commits'))
              /\ pc' = "done" ]_vars

====
